---- MODULE Spec2Model ----
(***************************************************************************)
(* Model of the session protocol client of creastat/assistant-widget:      *)
(*   ChatService (src/src/core/services/ChatService.ts) and                *)
(*   ChatStore   (src/src/core/store/index.ts).                            *)
(*                                                                         *)
(* Texts are sequences of tokens (one-character strings or whole words),   *)
(* so that concatenation and trim are computed, not assumed.               *)
(* JavaScript's null / undefined are 0 for handles and identifiers,        *)
(* "unset" for optional string fields and <<>> for an absent text.         *)
(***************************************************************************)
EXTENDS Integers, Sequences, FiniteSets, TLC

VARIABLES
    store,              \* ChatStore.state
    ws,                 \* ChatService.ws: a socket slot, 0 = null
    sockets,            \* every WebSocket object created and still alive
    config,             \* ChatService.config (the merged configuration)
    reconnectAttempts,  \* ChatService.reconnectAttempts
    reconnectTimeout,   \* ChatService.reconnectTimeout: "null", "pending", "fired"
    orphanTimers,       \* pending timers whose handle was overwritten
    currentMessageId,   \* ChatService.currentMessageId, 0 = null
    jwt,                \* ChatService.jwt: "null" or "token"
    authInFlight,       \* connect() calls suspended in authenticate()'s fetch
    cachedPending,      \* connect() calls suspended on the cached credential
    idCounter,          \* identifiers handed out by generateId so far
    run,                \* observer: the frame sequence in progress
    hist,               \* observer: what the caller did last, what the last step emitted
    webSocket,          \* VoiceService.webSocket: a socket slot, 0 = null
    voice,              \* the other fields of VoiceService
    player,             \* the fields of AudioPlaybackManager
    audio,              \* the buffer sources and Blob reads of the browser
    capture,            \* the microphone: acquisitions in progress, graphs
    obs,                \* observer: what playback did
    listeners,          \* ChatStore.listeners, in insertion order
    seen                \* observer: what the last store call delivered

vars == <<store, ws, sockets, config, listeners, seen, reconnectAttempts, reconnectTimeout,
          orphanTimers, currentMessageId, jwt, authInFlight, cachedPending,
          idCounter, run, hist, webSocket, voice, player, audio, capture,
          obs>>

(***************************************************************************)
(* Bounds of the model.                                                    *)
(***************************************************************************)
MaxSockets == 2
MaxGen == 2
MaxMsgs == 2
MaxContent == 2
MaxInFlight == 2
MaxOrphans == 1
MaxN == 2
MaxConnFrames == 1
MaxBuffers == 3
MaxConverting == 1
MaxGraphs == 2
MaxNow == 3500

(***************************************************************************)
(* Program constants.                                                      *)
(***************************************************************************)
DefaultMaxReconnectAttempts == 5
NormalClosure == 1000
AbnormalClosure == 1006
Unauthorized == 4401
\* startAudioRecording
REQUIRED_SPEECH_CHUNKS == 2
SILENCE_DURATION == 1000

CloseCodes == {NormalClosure, AbnormalClosure, Unauthorized}

(***************************************************************************)
(* Texts.                                                                  *)
(***************************************************************************)
RECURSIVE TrimLeft(_)
TrimLeft(s) ==
    IF s = <<>> THEN <<>>
    ELSE IF Head(s) = " " THEN TrimLeft(Tail(s)) ELSE s

RECURSIVE TrimRight(_)
TrimRight(s) ==
    IF s = <<>> THEN <<>>
    ELSE IF s[Len(s)] = " " THEN TrimRight(SubSeq(s, 1, Len(s) - 1)) ELSE s

Trim(s) == TrimRight(TrimLeft(s))

\* a || b on strings: the empty string is falsy
OrElse(a, b) == IF a # <<>> THEN a ELSE b

(***************************************************************************)
(* Messages (types/index.ts Message).                                      *)
(***************************************************************************)
Msg(id, role, type, content, finalized, target) ==
    [id |-> id, role |-> role, type |-> type, content |-> content,
     finalized |-> finalized, target |-> target]

LastMsg(messages) ==
    IF messages = <<>> THEN Msg(0, "none", "none", <<>>, "unset", "unset")
    ELSE messages[Len(messages)]

\* lastMsg && lastMsg.role === 'user' && lastMsg.type === 'text'
\*         && !lastMsg.metadata?.finalized
IsInterimUserTurn(m) ==
    m.id # 0 /\ m.role = "user" /\ m.type = "text" /\ m.finalized # "true"

generateId == idCounter + 1

(***************************************************************************)
(* ChatStore: every operation returns the new state.                       *)
(***************************************************************************)
InitialState ==
    [messages |-> <<>>, isConnected |-> FALSE, isConnecting |-> FALSE,
     isTyping |-> FALSE, isRecording |-> FALSE, isSpeaking |-> FALSE,
     ttsEnabled |-> FALSE, error |-> <<>>]

getState(st) == st

addMessage(st, message) ==
    [st EXCEPT !.messages = Append(@, message)]

updateMessage(st, id, content) ==
    [st EXCEPT !.messages =
        [i \in 1..Len(@) |->
            IF @[i].id = id THEN [@[i] EXCEPT !.content = content] ELSE @[i]]]

updateMessageDetails(st, id, content, target) ==
    [st EXCEPT !.messages =
        [i \in 1..Len(@) |->
            IF @[i].id = id
            THEN [@[i] EXCEPT !.content = content, !.target = target]
            ELSE @[i]]]

clearMessages(st) == [st EXCEPT !.messages = <<>>]

IsNotStatus(m) == m.type # "status"

removeStatusMessages(st) ==
    [st EXCEPT !.messages = SelectSeq(@, IsNotStatus)]

setConnected(st, connected) ==
    [st EXCEPT !.isConnected = connected, !.isConnecting = FALSE,
               !.error = IF connected THEN <<>> ELSE @]

setConnecting(st, connecting) == [st EXCEPT !.isConnecting = connecting]

setTyping(st, typing) == [st EXCEPT !.isTyping = typing]

setError(st, error) ==
    [st EXCEPT !.error = error, !.isConnected = FALSE, !.isConnecting = FALSE]

setRecording(st, recording) == [st EXCEPT !.isRecording = recording]

setSpeaking(st, speaking) == [st EXCEPT !.isSpeaking = speaking]

setTtsEnabled(st, enabled) == [st EXCEPT !.ttsEnabled = enabled]

(***************************************************************************)
(* ChatStore.setState and notify.  A listener is [id, kind]: the function  *)
(* and what it does when invoked.  An "observer" only reads the snapshot;  *)
(* a "resetter" calls store.setTyping(false) when the snapshot shows       *)
(* typing; a "oneShot" calls its unsubscribe function.  The operators work *)
(* on a record k of the store's state, its listeners and the observer.     *)
(***************************************************************************)
ListenerKinds == {"observer", "resetter", "oneShot"}

StoreWorld == [state |-> store, listeners |-> listeners, seen |-> seen]

\* the function returned by subscribe(): this.listeners.delete(listener)
unsubscribe(ls, id) == SelectSeq(ls, LAMBDA l : l.id # id)

RECURSIVE setState(_, _)
RECURSIVE forEach(_, _, _)

\* listener(state): the call made by notify's forEach
invoke(k, listener, state) ==
    LET delivered == [k EXCEPT
                         !.seen.stale = @ \/ (state # k.state),
                         !.seen.invoked = @ \cup {listener.id}]
    IN  CASE listener.kind = "resetter" /\ state.isTyping ->
                 setState(delivered, setTyping(delivered.state, FALSE))
          [] listener.kind = "oneShot" ->
                 [delivered EXCEPT !.listeners = unsubscribe(@, listener.id)]
          [] OTHER -> delivered

\* Set.prototype.forEach: the members are visited in insertion order; a
\* member deleted before its visit is not visited
forEach(k, state, visited) ==
    LET rest == SelectSeq(k.listeners, LAMBDA l : l.id \notin visited)
    IN  IF rest = <<>> THEN k
        ELSE forEach(invoke(k, Head(rest), state), state,
                     visited \cup {Head(rest).id})

\* notify(): one snapshot is taken, then handed to every listener
notify(k) == forEach(k, getState(k.state), {})

\* setState(updates), next being {...this.state, ...updates}
setState(k, next) == notify([k EXCEPT !.state = next])

(***************************************************************************)
(* AudioPlaybackManager.  Its methods change the manager, the browser's    *)
(* buffer sources and, through the two playback callbacks, VoiceService    *)
(* and the store: they are operators on a record of these five parts.      *)
(* A buffer is [id, tag, pcm]: id numbers the playAudioChunk calls, tag is  *)
(* the interaction it was enqueued for, pcm tells whether pcmToAudioBuffer *)
(* accepts its bytes (it throws on a chunk of odd or zero length).         *)
(***************************************************************************)
World == [store |-> store, voice |-> voice, player |-> player,
          audio |-> audio, obs |-> obs]

Becomes(w) ==
    /\ store' = w.store
    /\ voice' = w.voice
    /\ player' = w.player
    /\ audio' = w.audio
    /\ obs' = w.obs

UpTo2(n) == IF n < 2 THEN n + 1 ELSE n

\* the observer of the buffers' fates, when it is switched on: which
\* buffers were started, discarded from the queue or found unplayable, and
\* which playback notification was the last
Tracked(o, field, ids) == IF o.track THEN [o EXCEPT ![field] = @ \cup ids] ELSE o

Notified(o, what) == IF o.track THEN [o EXCEPT !.last = what] ELSE o

QueuedIds(queue) == {queue[i].id : i \in 1..Len(queue)}

\* the callback VoiceService registers with onPlaybackStart, and the
\* onSpeakingStateChange callback of ChatService behind it
playbackStartCallback(w) ==
    [w EXCEPT !.voice.isSpeaking = TRUE,
              !.store = setSpeaking(@, TRUE),
              !.obs = [Notified(@, "started") EXCEPT
                          !.starts = UpTo2(@),
                          !.doubleStart = @ \/ w.voice.isSpeaking]]

\* the callback VoiceService registers with onPlaybackEnd
playbackEndCallback(w) ==
    [w EXCEPT !.voice.isSpeaking = FALSE,
              !.store = setSpeaking(@, FALSE),
              !.obs = [Notified(@, "ended") EXCEPT !.ends = UpTo2(@)]]

\* stopTTS(): source.stop() silences the source; its ended event is still
\* to be dispatched
stopTTS(w) ==
    LET stopped == IF w.player.currentSource # 0
                   THEN [w EXCEPT !.audio.audible = @ \ {w.player.currentSource},
                                  !.player.currentSource = 0]
                   ELSE w
    IN  playbackEndCallback(
            [stopped EXCEPT !.player.audioQueue = <<>>,
                            !.player.isPlaying = FALSE,
                            !.player.currentInteractionId = "null",
                            !.obs = [Tracked(@, "discarded",
                                             QueuedIds(w.player.audioQueue))
                                     EXCEPT !.cancelledUpTo = w.audio.calls]])

\* a buffer source is created for buffer b, becomes the current source and
\* is started
startSource(w, b) ==
    [w EXCEPT !.player.currentSource = b,
              !.audio.audible = @ \cup {b},
              !.audio.endPending = @ \cup {b},
              !.obs = [Tracked(@, "played", {b}) EXCEPT
                          !.lastStarted = IF b > @ THEN b ELSE @]]

\* playNext() up to source.start(0) for a buffer of raw PCM, and up to
\* `await decodeAudioData` for a buffer that pcmToAudioBuffer rejects
playNext(w) ==
    IF w.player.audioQueue = <<>>
    THEN playbackEndCallback(
             [w EXCEPT !.player.isPlaying = FALSE,
                       !.player.currentInteractionId = "null"])
    ELSE LET audioData == Head(w.player.audioQueue)
             shifted == [w EXCEPT !.player.audioQueue = Tail(@)]
             started == IF ~shifted.player.isPlaying
                        THEN playbackStartCallback(
                                 [shifted EXCEPT !.player.isPlaying = TRUE])
                        ELSE shifted
         IN  IF audioData.pcm
             THEN startSource(started, audioData.id)
             ELSE [started EXCEPT !.audio.decoding = @ \cup {audioData.id}]

\* playAudioChunk up to the conversion of its argument
playAudioChunkEnter(w, interactionId) ==
    IF interactionId # "none" /\ interactionId # w.player.currentInteractionId
    THEN [stopTTS(w) EXCEPT !.player.audioQueue = <<>>,
                            !.player.currentInteractionId = interactionId]
    ELSE w

\* playAudioChunk from `this.audioQueue.push(buffer)` on
playAudioChunkPush(w, buffer) ==
    LET pushed == [w EXCEPT !.player.audioQueue = Append(@, buffer)]
    IN  IF ~pushed.player.isPlaying THEN playNext(pushed) ELSE pushed

(***************************************************************************)
(* WebSocket objects.  A slot holds one object: its readyState and whether *)
(* it was ever open.  Every object created by connect() carries the        *)
(* client's four handlers for its whole life (ChatService.ts:74-77).  An   *)
(* object that is closed and no longer referenced by this.ws is dropped    *)
(* from the heap ("NONE").                                                 *)
(***************************************************************************)
Slots == 1..MaxSockets

NoSocket == [readyState |-> "NONE", wasOpen |-> FALSE]

\* this.ws?.readyState === WebSocket.OPEN
IsOpen(w) == w # 0 /\ sockets[w].readyState = "OPEN"

\* the object can still deliver a close event
CanClose(s) == sockets[s].readyState \in {"CONNECTING", "OPEN", "CLOSING"}

\* the object can still deliver message events
CanReceive(s) ==
    \/ sockets[s].readyState = "OPEN"
    \/ sockets[s].readyState = "CLOSING" /\ sockets[s].wasOpen

\* the close codes the object's close event can carry: a connection that
\* was never established fails with 1006
CodesOf(s) == IF sockets[s].wasOpen THEN CloseCodes ELSE {AbnormalClosure}

\* the heap once this.ws is about to be overwritten: closed objects go
Collected == [i \in Slots |->
                 IF sockets[i].readyState = "CLOSED" THEN NoSocket ELSE sockets[i]]

HasFreeSlot == \E i \in Slots : Collected[i].readyState = "NONE"

FreeSlot == CHOOSE i \in Slots :
                /\ Collected[i].readyState = "NONE"
                /\ \A j \in Slots : j < i => Collected[j].readyState # "NONE"

\* this.ws = new WebSocket(url) and the four handler assignments
NewWebSocket ==
    /\ HasFreeSlot
    /\ sockets' = [Collected EXCEPT ![FreeSlot] =
                      [readyState |-> "CONNECTING", wasOpen |-> FALSE]]
    /\ ws' = FreeSlot
    /\ webSocket' = FreeSlot

\* ws.close(1000, ...) on the object in slot w
CloseCall(w) ==
    [i \in Slots |->
        IF i # w THEN sockets[i]
        ELSE IF sockets[i].readyState \in {"CONNECTING", "OPEN"}
             THEN [sockets[i] EXCEPT !.readyState = "CLOSING"]
             ELSE IF sockets[i].readyState = "CLOSED" THEN NoSocket
             ELSE sockets[i]]

(***************************************************************************)
(* Observers.  They record what happened; no action reads them.            *)
(***************************************************************************)
NoRun == [phase |-> "none", base |-> <<>>, acc |-> <<>>]

\* an action that is not part of a transcript or response sequence
RunReset == run' = NoRun

\* the events handed to this.emit(), the error raised to the caller and the
\* frames sent are those of the last step; they are recorded while the
\* observer is watching
Quiet(h) == [h EXCEPT !.events = <<>>, !.thrown = "none", !.sent = {}]

\* this.emit(event), once for each type of the sequence
emit(h, types) == IF h.watch THEN [h EXCEPT !.events = @ \o types] ELSE h

\* an action that is not a call of connect() or disconnect()
HistOther == hist' = [Quiet(hist) EXCEPT !.lastCall = "other"]

\* such an action that emits events
HistEmit(types) == hist' = emit([Quiet(hist) EXCEPT !.lastCall = "other"], types)

(***************************************************************************)
(* Messages of the connection errors.                                      *)
(***************************************************************************)
AuthFailedMsg == <<"Authentication failed">>
ConnErrorMsg == <<"Connection error occurred">>

(***************************************************************************)
(* connect()                                                               *)
(***************************************************************************)
\* this.config.maxReconnectAttempts || 5
MaxAttemptsOrDefault(c) ==
    IF c.maxReconnectAttempts # 0 THEN c.maxReconnectAttempts
    ELSE DefaultMaxReconnectAttempts

\* connect() up to its await, called from user code: with a cached
\* credential the rest of connect() runs as a microtask (ConnectResume),
\* before any event but after the caller's synchronous code
ConnectCall ==
    IF IsOpen(ws)
    THEN UNCHANGED <<store, authInFlight, cachedPending>>
    ELSE /\ authInFlight + cachedPending < MaxInFlight
         /\ store' = setConnecting(store, TRUE)
         /\ IF jwt # "null"
            THEN cachedPending' = cachedPending + 1 /\ UNCHANGED authInFlight
            ELSE authInFlight' = authInFlight + 1 /\ UNCHANGED cachedPending

Connect ==
    /\ ConnectCall
    /\ hist' = emit([Quiet(hist) EXCEPT
                         !.disc = FALSE, !.lastCall = "other",
                         !.roundTrip = (hist.lastCall = "disconnect"),
                         !.invalidated = (@ /\ IsOpen(ws))],
                    IF IsOpen(ws) THEN <<>> ELSE <<"connecting">>)
    /\ RunReset
    /\ UNCHANGED <<webSocket, voice, player, audio, capture, obs, ws, sockets, config, listeners, seen, reconnectAttempts, reconnectTimeout,
                   orphanTimers, currentMessageId, jwt, idCounter>>

\* the rest of connect() after `await this.authenticate()` returned the
\* cached credential
ConnectResume ==
    /\ cachedPending > 0
    /\ cachedPending' = cachedPending - 1
    /\ NewWebSocket
    /\ HistOther /\ RunReset
    /\ UNCHANGED <<voice, player, audio, capture, obs, store, config, listeners, seen, reconnectAttempts, reconnectTimeout,
                   orphanTimers, currentMessageId, jwt, authInFlight, idCounter>>

\* events are dispatched only when no microtask is pending
EventLoopIdle == cachedPending = 0

\* the fetch of authenticate() succeeds: the credential is cached and
\* connect() goes on to create the transport
AuthSuccess ==
    /\ EventLoopIdle
    /\ authInFlight > 0
    /\ authInFlight' = authInFlight - 1
    /\ jwt' = "token"
    /\ NewWebSocket
    /\ HistOther /\ RunReset
    /\ UNCHANGED <<voice, player, audio, capture, obs, store, config, listeners, seen, reconnectAttempts, reconnectTimeout,
                   orphanTimers, currentMessageId, cachedPending, idCounter>>

\* an error handler that records the message without store.setError
handleConnectionError_KeepsConnecting(st, message) == [st EXCEPT !.error = message]

handleConnectionError(st, message) == setError(st, message)

\* the fetch fails or answers !response.ok: connect()'s catch block
AuthFailure ==
    /\ EventLoopIdle
    /\ authInFlight > 0
    /\ authInFlight' = authInFlight - 1
    /\ store' = handleConnectionError(store, AuthFailedMsg)
    /\ HistEmit(<<"error">>) /\ RunReset
    /\ UNCHANGED <<webSocket, voice, player, audio, capture, obs, ws, sockets, config, listeners, seen, reconnectAttempts, reconnectTimeout,
                   orphanTimers, currentMessageId, jwt, cachedPending, idCounter>>

(***************************************************************************)
(* disconnect()                                                            *)
(***************************************************************************)
Disconnect ==
    /\ reconnectTimeout' = "null"
    /\ IF ws # 0
       THEN sockets' = CloseCall(ws) /\ ws' = 0
       ELSE UNCHANGED <<sockets, ws>>
    /\ store' = setConnected(store, FALSE)
    /\ hist' = emit([Quiet(hist) EXCEPT !.disc = TRUE,
                                        !.lastCall = "disconnect",
                                        !.roundTrip = FALSE],
                    <<"disconnected">>)
    /\ RunReset
    /\ UNCHANGED <<webSocket, voice, player, audio, capture, obs, config, listeners, seen, reconnectAttempts, orphanTimers, currentMessageId,
                   jwt, authInFlight, cachedPending, idCounter>>

(***************************************************************************)
(* Transport events                                                        *)
(***************************************************************************)
handleOpen(st) == setConnected(st, TRUE)

WsOpen(s) ==
    /\ EventLoopIdle
    /\ sockets[s].readyState = "CONNECTING"
    /\ sockets' = [sockets EXCEPT ![s] = [readyState |-> "OPEN", wasOpen |-> TRUE]]
    /\ reconnectAttempts' = 0
    /\ store' = handleOpen(store)
    /\ HistEmit(<<"connected">>) /\ RunReset
    /\ UNCHANGED <<webSocket, voice, player, audio, capture, obs, ws, config, listeners, seen, reconnectTimeout, orphanTimers, currentMessageId,
                   jwt, authInFlight, cachedPending, idCounter>>

\* a handleClose that never calls attemptReconnect()
ShouldReconnect_Never(code) == FALSE

\* the condition of handleClose under which attemptReconnect() is called
ShouldReconnect(code) ==
    /\ config.reconnect
    /\ reconnectAttempts < MaxAttemptsOrDefault(config)
    /\ code # NormalClosure

\* the close event of the object in slot s, after an error event when the
\* connection failed (withError): handleError, then handleClose
WsClose(s, code, withError) ==
    /\ EventLoopIdle
    /\ CanClose(s)
    /\ code \in CodesOf(s)
    /\ withError => code = AbnormalClosure
    /\ sockets' = [sockets EXCEPT ![s] =
                      IF ws = s THEN [@ EXCEPT !.readyState = "CLOSED"]
                      ELSE NoSocket]
    /\ jwt' = IF code = Unauthorized THEN "null" ELSE jwt
    /\ store' = setConnected(
                   IF withError THEN handleConnectionError(store, ConnErrorMsg)
                   ELSE store, FALSE)
    /\ IF ShouldReconnect(code)
       THEN \* attemptReconnect(): the old handle is overwritten, not cleared
            /\ reconnectAttempts' = reconnectAttempts + 1
            /\ reconnectTimeout' = "pending"
            /\ IF reconnectTimeout = "pending"
               THEN orphanTimers < MaxOrphans /\ orphanTimers' = orphanTimers + 1
               ELSE UNCHANGED orphanTimers
       ELSE UNCHANGED <<reconnectAttempts, reconnectTimeout, orphanTimers>>
    /\ hist' = emit([Quiet(hist) EXCEPT
                         !.lastCall = "other",
                         !.invalidated = (@ \/ code = Unauthorized)],
                    (IF withError THEN <<"error">> ELSE <<>>)
                        \o <<"disconnected">>)
    /\ RunReset
    /\ UNCHANGED <<webSocket, voice, player, audio, capture, obs, ws, config, listeners, seen, currentMessageId, authInFlight, cachedPending,
                   idCounter>>

(***************************************************************************)
(* The reconnect timer: its callback calls connect().  No user code runs   *)
(* between that call and its continuation, so with a cached credential the *)
(* transport is created in the same step.                                  *)
(***************************************************************************)
TimerConnect ==
    /\ IF IsOpen(ws)
       THEN UNCHANGED <<webSocket, store, authInFlight, ws, sockets>>
       ELSE /\ store' = setConnecting(store, TRUE)
            /\ IF jwt # "null"
               THEN NewWebSocket /\ UNCHANGED authInFlight
               ELSE /\ authInFlight + cachedPending < MaxInFlight
                    /\ authInFlight' = authInFlight + 1
                    /\ UNCHANGED <<webSocket, ws, sockets>>
    /\ hist' = emit([Quiet(hist) EXCEPT
                         !.lastCall = "other",
                         !.invalidated = (@ /\ IsOpen(ws))],
                    IF IsOpen(ws) THEN <<>> ELSE <<"connecting">>)
    /\ RunReset
    /\ UNCHANGED <<voice, player, audio, capture, obs, config, listeners, seen, reconnectAttempts, currentMessageId, jwt,
                   cachedPending, idCounter>>

TimerFire ==
    /\ EventLoopIdle
    /\ reconnectTimeout = "pending"
    /\ reconnectTimeout' = "fired"
    /\ UNCHANGED orphanTimers
    /\ TimerConnect

OrphanTimerFire ==
    /\ EventLoopIdle
    /\ orphanTimers > 0
    /\ orphanTimers' = orphanTimers - 1
    /\ UNCHANGED reconnectTimeout
    /\ TimerConnect

(***************************************************************************)
(* Inbound frames: handleMessage dispatches on data.type.  A frame is      *)
(* delivered by any object that can still receive.                         *)
(***************************************************************************)
\* what every frame handler leaves alone
FrameUnchanged ==
    UNCHANGED <<webSocket, voice, player, audio, capture, obs, ws, sockets, config, listeners, seen, reconnectAttempts, reconnectTimeout,
                orphanTimers, jwt, authInFlight, cachedPending>>

Delivers(s) == EventLoopIdle /\ CanReceive(s)

\* stream.stt
handleSttMessage(text, isFinal) ==
    LET messages == getState(store).messages
        lastMsg == LastMsg(messages)
    IN  IF Trim(text) = <<>>
        THEN UNCHANGED <<store, idCounter>>
        ELSE IF IsInterimUserTurn(lastMsg)
        THEN /\ UNCHANGED idCounter
             /\ IF isFinal
                THEN LET updated == updateMessage(store, lastMsg.id, text)
                         updatedMessages ==
                             [i \in 1..Len(messages) |->
                                 IF messages[i].id = lastMsg.id
                                 THEN [messages[i] EXCEPT !.finalized = "true"]
                                 ELSE messages[i]]
                         \* `this.store.getState().messages = updatedMessages`
                         \* assigns to the copy getState() returns
                         copy == [getState(updated) EXCEPT !.messages = updatedMessages]
                     IN  store' = updated
                ELSE store' = updateMessage(store, lastMsg.id, text)
        ELSE /\ idCounter < MaxGen
             /\ Len(messages) < MaxMsgs
             /\ idCounter' = idCounter + 1
             /\ store' = addMessage(store,
                    Msg(generateId, "user", "text", text,
                        IF isFinal THEN "true" ELSE "false", "unset"))

\* the observer of transcript sequences: interim frames, then one final
SttRun(text, isFinal) ==
    IF Trim(text) = <<>> THEN NoRun
    ELSE IF ~isFinal
    THEN IF run.phase = "stt" THEN run
         ELSE IF ~IsInterimUserTurn(LastMsg(store.messages))
              THEN [phase |-> "stt", base |-> store.messages, acc |-> <<>>]
              ELSE NoRun
    ELSE IF run.phase = "stt"
         THEN [phase |-> "sttDone", base |-> run.base, acc |-> text]
         ELSE NoRun

SttFrame(s, text, isFinal) ==
    /\ Delivers(s)
    /\ handleSttMessage(text, isFinal)
    /\ run' = SttRun(text, isFinal)
    /\ HistOther
    /\ UNCHANGED currentMessageId
    /\ FrameUnchanged

\* handleLlmMessage starting a new turn without looking at currentMessageId
LlmBranch_NoOpenCheck(lastMsg, cur) ==
    IF lastMsg.id # 0 /\ lastMsg.role = "assistant" /\ lastMsg.type # "status"
       /\ cur = 0
    THEN "append"
    ELSE "new"

\* which branch of handleLlmMessage is taken
LlmBranch(lastMsg, cur) ==
    IF lastMsg.id # 0 /\ lastMsg.role = "assistant" /\ lastMsg.type # "status"
       /\ cur = 0
    THEN "append"
    ELSE IF cur = 0 THEN "new" ELSE "continue"

\* stream.llm
handleLlmMessage(delta, content) ==
    LET messages == getState(store).messages
        lastMsg == LastMsg(messages)
        branch == LlmBranch(lastMsg, currentMessageId)
    IN  CASE branch = "append" ->
               /\ Len(lastMsg.content) + Len(delta) <= MaxContent
               /\ store' = updateMessage(removeStatusMessages(store),
                                         lastMsg.id, lastMsg.content \o delta)
               /\ UNCHANGED <<currentMessageId, idCounter>>
          [] branch = "new" ->
               /\ idCounter < MaxGen
               /\ Len(removeStatusMessages(store).messages) < MaxMsgs
               /\ idCounter' = idCounter + 1
               /\ currentMessageId' = generateId
               /\ store' = setTyping(
                     addMessage(removeStatusMessages(store),
                         Msg(generateId, "assistant", "text",
                             OrElse(delta, content), "unset", "unset")),
                     TRUE)
          [] OTHER ->
               /\ UNCHANGED <<currentMessageId, idCounter>>
               /\ IF \E i \in 1..Len(messages) : messages[i].id = currentMessageId
                  THEN LET lastMessage ==
                               messages[CHOOSE i \in 1..Len(messages) :
                                   /\ messages[i].id = currentMessageId
                                   /\ \A j \in 1..(i - 1) :
                                         messages[j].id # currentMessageId]
                       IN  /\ Len(lastMessage.content) + Len(delta) <= MaxContent
                           /\ store' = updateMessage(store, currentMessageId,
                                                     lastMessage.content \o delta)
                  ELSE UNCHANGED store

\* the observer of response sequences: response.start received while no turn
\* is open, stream.llm frames that carry a delta, response.end (sequences of
\* at most MaxContent tokens are followed)
LlmRun(delta, content) ==
    IF /\ run.phase \in {"started", "llm"}
       /\ delta # <<>>
       /\ Len(run.acc) + Len(OrElse(delta, content)) <= MaxContent
    THEN [phase |-> "llm", base |-> run.base,
          acc |-> run.acc \o OrElse(delta, content)]
    ELSE NoRun

LlmFrame(s, delta, content) ==
    /\ Delivers(s)
    /\ handleLlmMessage(delta, content)
    /\ run' = LlmRun(delta, content)
    /\ HistEmit(IF LlmBranch(LastMsg(store.messages), currentMessageId) = "new"
                THEN <<"typing-start">> ELSE <<>>)
    /\ FrameUnchanged

\* response.start
handleResponseStart(st) == removeStatusMessages(st)

ResponseStartFrame(s) ==
    /\ Delivers(s)
    /\ store' = handleResponseStart(store)
    /\ run' = IF currentMessageId = 0
              THEN [phase |-> "started", base |-> store'.messages, acc |-> <<>>]
              ELSE NoRun
    /\ HistOther
    /\ UNCHANGED <<currentMessageId, idCounter>>
    /\ FrameUnchanged

\* a response.end that prunes the status turns whatever the TTS setting
handleResponseEnd_AlwaysPrunes(st, cur) ==
    removeStatusMessages(IF cur # 0 THEN setTyping(st, FALSE) ELSE st)

\* response.end
handleResponseEnd(st, cur) ==
    LET closed == IF cur # 0 THEN setTyping(st, FALSE) ELSE st
    IN  IF ~getState(closed).ttsEnabled THEN removeStatusMessages(closed)
        ELSE closed

ResponseEndFrame(s) ==
    /\ Delivers(s)
    /\ store' = handleResponseEnd(store, currentMessageId)
    /\ currentMessageId' = 0
    /\ run' = IF run.phase = "llm" THEN [run EXCEPT !.phase = "llmDone"] ELSE NoRun
    /\ hist' = emit([Quiet(hist) EXCEPT !.lastCall = "response.end"],
                    IF currentMessageId # 0 THEN <<"typing-end">> ELSE <<>>)
    /\ UNCHANGED idCounter
    /\ FrameUnchanged

\* response.audio_end
ResponseAudioEndFrame(s) ==
    /\ Delivers(s)
    /\ store' = removeStatusMessages(store)
    /\ RunReset /\ HistOther
    /\ UNCHANGED <<currentMessageId, idCounter>>
    /\ FrameUnchanged

DefaultErrorMsg == <<"An error occurred">>

\* error
handleErrorMessage(st, cur, message, id) ==
    LET errorMsg == OrElse(message, DefaultErrorMsg)
        pruned == removeStatusMessages(st)
        closed == IF cur # 0 THEN setTyping(pruned, FALSE) ELSE pruned
    IN  setError(
            addMessage(closed,
                Msg(id, "assistant", "error", errorMsg, "unset", "unset")),
            errorMsg)

\* an error frame; handleErrorMessage reads payload.message only, whatever
\* payload.target the frame carries
ErrorFrame(s, message, payloadTarget) ==
    /\ Delivers(s)
    /\ payloadTarget \in {"unset", "user", "bot"}
    /\ idCounter < MaxGen
    /\ Len(removeStatusMessages(store).messages) < MaxMsgs
    /\ idCounter' = idCounter + 1
    /\ store' = handleErrorMessage(store, currentMessageId, message, generateId)
    /\ currentMessageId' = 0
    /\ RunReset
    /\ HistEmit((IF currentMessageId # 0 THEN <<"typing-end">> ELSE <<>>)
                    \o <<"error">>)
    /\ FrameUnchanged

\* payload.target || 'bot'
TargetOrBot(target) == IF target = "unset" THEN "bot" ELSE target

RoleOf(target) == IF target = "user" THEN "user" ELSE "assistant"

DefaultStatusMsg == <<"Status update">>

\* whether handleStatusMessage updates the last turn in place
StatusMatches(lastMsg, target) ==
    lastMsg.id # 0 /\ lastMsg.type = "status" /\ lastMsg.target = target

\* status: payloadTarget is payload.target as received, id is data.id or a
\* generated identifier
handleStatusMessage(st, message, status, payloadTarget, id) ==
    LET lastMsg == LastMsg(getState(st).messages)
        target == TargetOrBot(payloadTarget)
        content == OrElse(message, OrElse(status, DefaultStatusMsg))
    IN  IF StatusMatches(lastMsg, target)
        THEN updateMessageDetails(st, lastMsg.id, content, payloadTarget)
        ELSE addMessage(st,
                 Msg(id, RoleOf(target), "status", content, "unset", payloadTarget))

StatusFrame(s, message, status, payloadTarget, dataId) ==
    LET lastMsg == LastMsg(store.messages)
        creates == ~StatusMatches(lastMsg, TargetOrBot(payloadTarget))
        fresh == creates /\ dataId = 0
    IN  /\ Delivers(s)
        /\ creates => Len(store.messages) < MaxMsgs
        /\ fresh => idCounter < MaxGen
        /\ idCounter' = IF fresh THEN idCounter + 1 ELSE idCounter
        /\ store' = handleStatusMessage(store, message, status, payloadTarget,
                                        IF dataId # 0 THEN dataId ELSE generateId)
        /\ RunReset /\ HistOther
        /\ UNCHANGED currentMessageId
        /\ FrameUnchanged

DefaultServiceMsg == <<"Service notification">>

\* service.message
handleServiceMessage(st, content, payloadTarget, id) ==
    LET target == TargetOrBot(payloadTarget)
    IN  addMessage(removeStatusMessages(st),
            Msg(id, RoleOf(target), "error", OrElse(content, DefaultServiceMsg),
                "unset", target))

ServiceFrame(s, content, payloadTarget, dataId) ==
    /\ Delivers(s)
    /\ Len(removeStatusMessages(store).messages) < MaxMsgs
    /\ dataId = 0 => idCounter < MaxGen
    /\ idCounter' = IF dataId = 0 THEN idCounter + 1 ELSE idCounter
    /\ store' = handleServiceMessage(store, content, payloadTarget,
                                     IF dataId # 0 THEN dataId ELSE generateId)
    /\ RunReset /\ HistOther
    /\ UNCHANGED currentMessageId
    /\ FrameUnchanged

\* a text frame that JSON.parse rejects: the catch block of handleMessage
\* logs the error and returns
\* a catch block that reports the frame as an error turn would
handleUnparsable_AsError(st) == setTyping(removeStatusMessages(st), FALSE)

handleUnparsable(st) == st

MalformedFrame(s) ==
    /\ Delivers(s)
    /\ store' = handleUnparsable(store)
    /\ hist' = [Quiet(hist) EXCEPT !.lastCall = "malformed"]
    /\ UNCHANGED <<currentMessageId, idCounter, run>>
    /\ FrameUnchanged

(***************************************************************************)
(* User operations on the conversation                                     *)
(***************************************************************************)
\* the error of a call made while the transport is not open
NotConnected == "not-connected"

\* a call that raises error to its caller
Throws(error) ==
    hist' = [Quiet(hist) EXCEPT !.lastCall = "other",
                                !.thrown = IF hist.watch THEN error ELSE @]

\* a call that sends the frames of the given types
Sends(types) ==
    hist' = [Quiet(hist) EXCEPT !.lastCall = "other",
                                !.sent = IF hist.watch THEN types ELSE @]

\* sendMessage(content) with its test of the transport left out
SendMessage_NoCheck(content) ==
    /\ Trim(content) # <<>>
    /\ idCounter < MaxGen
    /\ Len(removeStatusMessages(store).messages) < MaxMsgs
    /\ idCounter' = idCounter + 1
    /\ store' = addMessage(removeStatusMessages(store),
                    Msg(generateId, "user", "text", Trim(content), "unset", "unset"))
    /\ Sends({"input.text"})
    /\ RunReset
    /\ UNCHANGED <<webSocket, voice, player, audio, capture, obs, ws, sockets,
                   config, listeners, seen, reconnectAttempts, reconnectTimeout,
                   orphanTimers, currentMessageId, jwt, authInFlight,
                   cachedPending>>

\* sendMessage(content): throws unless the transport is open, ignores an
\* empty submission
SendMessage(content) ==
    /\ IF ~IsOpen(ws)
       THEN /\ Throws(NotConnected)
            /\ UNCHANGED <<store, idCounter>>
       ELSE /\ Trim(content) # <<>>
            /\ idCounter < MaxGen
            /\ Len(removeStatusMessages(store).messages) < MaxMsgs
            /\ idCounter' = idCounter + 1
            /\ store' = addMessage(removeStatusMessages(store),
                           Msg(generateId, "user", "text", Trim(content),
                               "unset", "unset"))
            /\ Sends({"input.text"})
    /\ RunReset
    /\ UNCHANGED <<webSocket, voice, player, audio, capture, obs, ws, sockets, config, listeners, seen, reconnectAttempts, reconnectTimeout,
                   orphanTimers, currentMessageId, jwt, authInFlight,
                   cachedPending>>

\* sendControl(action, payload): throws unless the transport is open
SendControl ==
    /\ IF ~IsOpen(ws) THEN Throws(NotConnected) ELSE Sends({"control.config"})
    /\ RunReset
    /\ UNCHANGED <<store, webSocket, voice, player, audio, capture, obs, ws,
                   sockets, config, listeners, seen, reconnectAttempts, reconnectTimeout,
                   orphanTimers, currentMessageId, jwt, authInFlight,
                   cachedPending, idCounter>>

ClearMessages ==
    /\ store' = clearMessages(store)
    /\ RunReset /\ HistOther
    /\ UNCHANGED <<webSocket, voice, player, audio, capture, obs, ws, sockets, config, listeners, seen, reconnectAttempts, reconnectTimeout,
                   orphanTimers, currentMessageId, jwt, authInFlight,
                   cachedPending, idCounter>>

\* the observer of barge-in is switched off
ObsOff(o) == [o EXCEPT !.barge = FALSE, !.dropped = {}, !.ends = 0, !.starts = 0,
                       !.skipped = 0]

\* toggleTTS(): the store's flag and VoiceService.setTtsEnabled, which
\* stops playback when TTS is turned off (the control frame it sends
\* changes no state of the client)
ToggleTTS ==
    LET newState == ~getState(store).ttsEnabled
        set == [World EXCEPT !.store = setTtsEnabled(@, newState),
                             !.voice.ttsEnabled = newState]
        done == IF ~newState THEN stopTTS(set) ELSE set
    IN  /\ Becomes([done EXCEPT !.obs = ObsOff(@)])
        /\ RunReset
        /\ Sends(IF IsOpen(ws) THEN {"control.config"} ELSE {})
        /\ UNCHANGED <<webSocket, capture, ws, sockets, config, listeners, seen,
                       reconnectAttempts, reconnectTimeout,
                       orphanTimers, currentMessageId, jwt, authInFlight,
                       cachedPending, idCounter>>

(***************************************************************************)
(* Inbound audio and the events of playback                                *)
(***************************************************************************)
\* what the audio frames and the playback events leave alone
PlaybackUnchanged ==
    UNCHANGED <<webSocket, capture, ws, sockets, config, listeners, seen, reconnectAttempts,
                reconnectTimeout, orphanTimers, currentMessageId, jwt,
                authInFlight, cachedPending, idCounter>>

\* the observer when a buffer tagged interactionId is enqueued: barge-in is
\* the enqueue of another interaction's buffer while audio is playing
ObsAtEnqueue(w, interactionId) ==
    IF /\ w.player.isPlaying
       /\ w.player.currentSource \in w.audio.audible
       /\ w.player.currentInteractionId # "null"
       /\ interactionId # "none"
       /\ interactionId # w.player.currentInteractionId
    THEN [w.obs EXCEPT !.barge = TRUE, !.ends = 0, !.starts = 0,
             !.dropped = {w.player.audioQueue[i].id :
                             i \in 1..Len(w.player.audioQueue)}]
    ELSE ObsOff(w.obs)

\* a binary frame: handleMessage tests the store's flag, handleAudioMessage
\* calls VoiceService.playAudioChunk, which tests its own flag; the frame's
\* data is a Blob, whose arrayBuffer() is awaited before the push
BinaryAudioFrame(s) ==
    /\ Delivers(s)
    /\ IF getState(store).ttsEnabled /\ voice.ttsEnabled
       THEN /\ audio.calls < MaxBuffers
            /\ Len(audio.converting) < MaxConverting
            /\ LET entered == playAudioChunkEnter(
                                 [World EXCEPT !.obs = ObsOff(@)], "none")
               IN  \E pcm \in BOOLEAN :
                     Becomes([entered EXCEPT
                       !.audio.calls = @ + 1,
                       !.audio.converting =
                           Append(@, [id |-> audio.calls + 1, tag |-> "none",
                                      pcm |-> pcm])])
       ELSE UNCHANGED <<store, voice, player, audio, obs>>
    /\ RunReset /\ HistOther
    /\ PlaybackUnchanged

\* `await audioData.arrayBuffer()` resolves; the rest of playAudioChunk
BlobConverted ==
    /\ EventLoopIdle
    /\ audio.converting # <<>>
    /\ Becomes(playAudioChunkPush(
           [World EXCEPT !.obs = ObsOff(@), !.audio.converting = Tail(@)],
           Head(audio.converting)))
    /\ RunReset /\ HistOther
    /\ PlaybackUnchanged

\* an audio frame (base64): handleBase64Audio decodes payload.data into an
\* ArrayBuffer and passes payload.context.interaction_id on
Base64AudioFrame(s, interactionId) ==
    /\ Delivers(s)
    /\ IF getState(store).ttsEnabled /\ voice.ttsEnabled
       THEN /\ audio.calls < MaxBuffers
            /\ LET w == [World EXCEPT !.obs = ObsAtEnqueue(World, interactionId)]
                   entered == playAudioChunkEnter(w, interactionId)
               IN  \E pcm \in BOOLEAN :
                     Becomes(playAudioChunkPush(
                       [entered EXCEPT !.audio.calls = @ + 1],
                       [id |-> audio.calls + 1, tag |-> interactionId,
                        pcm |-> pcm]))
       ELSE UNCHANGED <<store, voice, player, audio, obs>>
    /\ RunReset /\ HistOther
    /\ PlaybackUnchanged

\* an onended handler that clears currentSource and does not call
\* playNext()
SourceEnded_NoNext(b) ==
    /\ EventLoopIdle
    /\ b \in audio.endPending
    /\ Becomes([World EXCEPT
                    !.audio.endPending = @ \ {b},
                    !.audio.audible = @ \ {b},
                    !.player.currentSource = 0,
                    !.obs = IF b \in audio.audible THEN ObsOff(@) ELSE @])
    /\ RunReset /\ HistOther
    /\ PlaybackUnchanged

\* the ended event of source b, at the end of its buffer or after stop():
\* the onended handler set by playNext
SourceEnded(b) ==
    /\ EventLoopIdle
    /\ b \in audio.endPending
    /\ LET w == [World EXCEPT
                    !.audio.endPending = @ \ {b},
                    !.audio.audible = @ \ {b},
                    !.player.currentSource = 0,
                    !.obs = IF b \in audio.audible THEN ObsOff(@) ELSE @]
       IN  Becomes(playNext(w))
    /\ RunReset /\ HistOther
    /\ PlaybackUnchanged

\* a fallback whose inner catch block only logs the failure
DecodeSettled_NoSkip(b, ok) ==
    /\ EventLoopIdle
    /\ b \in audio.decoding
    /\ LET w == [World EXCEPT !.audio.decoding = @ \ {b},
                              !.obs = ObsOff(@)]
       IN  Becomes(IF ok THEN startSource(w, b)
                   ELSE [w EXCEPT !.obs = [Tracked(@, "unplayable", {b})
                                           EXCEPT !.skipped = b]])
    /\ RunReset /\ HistOther
    /\ PlaybackUnchanged

\* `await decodeAudioData` of buffer b settles: resolved, the rest of the
\* fallback creates and starts the source; rejected, the inner catch block
\* calls playNext()
DecodeSettled(b, ok) ==
    /\ EventLoopIdle
    /\ b \in audio.decoding
    /\ LET w == [World EXCEPT !.audio.decoding = @ \ {b},
                              !.obs = ObsOff(@)]
       IN  Becomes(IF ok THEN startSource(w, b)
                   ELSE playNext([w EXCEPT
                            !.obs = [Tracked(@, "unplayable", {b})
                                     EXCEPT !.skipped = b]]))
    /\ RunReset /\ HistOther
    /\ PlaybackUnchanged

(***************************************************************************)
(* Inputs                                                                  *)
(***************************************************************************)
SttTexts == {<<" ">>, <<"x">>, <<"y">>}
Deltas == {<<>>, <<"a">>}
Contents == {<<>>, <<"c">>}
ErrorMessages == {<<>>}
StatusMessages == {<<>>}
StatusKeys == {<<>>, <<"thinking">>}
ServiceContents == {<<>>}
Targets == {"unset", "user", "bot"}
ServerId == 101
DataIds == {0, ServerId}
InteractionIds == {"none", "A", "B"}
SendTexts == {<<" ", "hi", " ">>, <<" ">>}

\* the configurations a caller can pass: maxReconnectAttempts given as
\* 0..MaxN, or left out (the constructor's default)
Configs ==
    [reconnect : BOOLEAN,
     maxReconnectAttempts : (0..MaxN) \cup {DefaultMaxReconnectAttempts}]

DefaultConfig ==
    [reconnect |-> TRUE, maxReconnectAttempts |-> DefaultMaxReconnectAttempts]

NoHist == [disc |-> FALSE, lastCall |-> "other", roundTrip |-> FALSE,
           invalidated |-> FALSE, watch |-> FALSE, events |-> <<>>,
           thrown |-> "none", sent |-> {}]

\* the observer with events, errors and frames sent recorded
WatchingHist == [NoHist EXCEPT !.watch = TRUE]

(***************************************************************************)
(* The voice side after construction                                       *)
(***************************************************************************)
\* the fields of `new VoiceService(callbacks)`; identifiers are 0 for null
NewVoiceService ==
    [isRecording |-> FALSE, isSpeaking |-> FALSE, ttsEnabled |-> FALSE,
     currentInteractionId |-> 0, recordingResources |-> 0]

\* the fields of `new AudioPlaybackManager()`
NewAudioPlaybackManager ==
    [audioQueue |-> <<>>, isPlaying |-> FALSE, currentSource |-> 0,
     currentInteractionId |-> "null"]

\* no source was started and no Blob is being read; calls counts the
\* playAudioChunk calls made so far
NoAudio == [audible |-> {}, endPending |-> {}, converting |-> <<>>,
            decoding |-> {}, calls |-> 0]

GraphIds == 1..MaxGraphs

\* a capture graph that does not exist: the closure variables of
\* startAudioRecording as it initialises them
NoGraph == [live |-> FALSE, isSpeaking |-> FALSE, silenceStartTime |-> 0,
            consecutiveSpeechChunks |-> 0]

\* what the observer knows of a graph's batches
NoVadObs == [aboveRun |-> 0, active |-> FALSE, runStart |-> 0,
             loneAbove |-> FALSE, heldAt |-> FALSE, emitted |-> {}]

NoOut == [inputEnd |-> 0, data |-> FALSE]

\* no startAudioRecording call in progress, no graph; now is Date.now()
NoCapture ==
    [acquiring |-> 0, graphs |-> [g \in GraphIds |-> NoGraph],
     vadObs |-> [g \in GraphIds |-> NoVadObs],
     now |-> 0, interactions |-> 0, lastOnset |-> 0, out |-> NoOut]

NoObs == [lastStarted |-> 0, barge |-> FALSE, dropped |-> {},
          ends |-> 0, starts |-> 0, doubleStart |-> FALSE,
          cancelledUpTo |-> 0, skipped |-> 0,
          track |-> FALSE, played |-> {}, discarded |-> {},
          unplayable |-> {}, last |-> "none"]

\* the observer of the buffers' fates is switched on
TrackingObs == [NoObs EXCEPT !.track = TRUE]

\* no store call was observed
NoSeen == [stale |-> FALSE, invoked |-> {}, missed |-> FALSE]

(***************************************************************************)
(* The state after `new ChatService(config)`                               *)
(***************************************************************************)
ConstructedTracked(c, h, o) ==
    /\ store = InitialState
    /\ ws = 0
    /\ sockets = [i \in Slots |-> NoSocket]
    /\ config = c
    /\ reconnectAttempts = 0
    /\ reconnectTimeout = "null"
    /\ orphanTimers = 0
    /\ currentMessageId = 0
    /\ jwt = "null"
    /\ authInFlight = 0
    /\ cachedPending = 0
    /\ idCounter = 0
    /\ run = NoRun
    /\ hist = h
    /\ webSocket = 0
    /\ voice = NewVoiceService
    /\ player = NewAudioPlaybackManager
    /\ audio = NoAudio
    /\ capture = NoCapture
    /\ obs = o
    /\ listeners = <<>>
    /\ seen = NoSeen

ConstructedObserved(c, h) == ConstructedTracked(c, h, NoObs)

Constructed(c) == ConstructedObserved(c, NoHist)

(***************************************************************************)
(* Spec: the connection lifecycle, with the two frames that report a       *)
(* server-side error.                                                      *)
(***************************************************************************)
Init == \E c \in Configs : Constructed(c)

\* the frames of this specification stop once the conversation holds
\* MaxConnFrames turns
ConnFrameBound == Len(store.messages) < MaxConnFrames

Next ==
    \/ Connect
    \/ ConnectResume
    \/ AuthSuccess
    \/ AuthFailure
    \/ Disconnect
    \/ \E s \in Slots : WsOpen(s)
    \/ \E s \in Slots, code \in CloseCodes, withError \in BOOLEAN :
          WsClose(s, code, withError)
    \/ TimerFire
    \/ OrphanTimerFire
    \/ \E s \in Slots : ConnFrameBound /\ ErrorFrame(s, <<>>, "unset")
    \/ \E s \in Slots : ConnFrameBound /\ ServiceFrame(s, <<>>, "unset", ServerId)

Spec == Init /\ [][Next]_vars

(***************************************************************************)
(* SpecChat: message assembly.  The caller connects once and the transport *)
(* stays open; every frame type arrives, in any order.                     *)
(***************************************************************************)
InitChat == Constructed(DefaultConfig)

ConnectOnce == ws = 0 /\ authInFlight = 0 /\ Connect

NextChat ==
    \/ ConnectOnce
    \/ AuthSuccess
    \/ \E s \in Slots : WsOpen(s)
    \/ \E s \in Slots, text \in SttTexts, isFinal \in BOOLEAN :
          SttFrame(s, text, isFinal)
    \/ \E s \in Slots, delta \in Deltas, content \in Contents :
          LlmFrame(s, delta, content)
    \/ \E s \in Slots : ResponseStartFrame(s)
    \/ \E s \in Slots : ResponseEndFrame(s)
    \/ \E s \in Slots : ResponseAudioEndFrame(s)
    \/ \E s \in Slots, message \in ErrorMessages, target \in Targets :
          ErrorFrame(s, message, target)
    \/ \E s \in Slots, message \in StatusMessages, status \in StatusKeys,
          target \in Targets, dataId \in DataIds :
          StatusFrame(s, message, status, target, dataId)
    \/ \E s \in Slots, content \in ServiceContents, target \in Targets :
          ServiceFrame(s, content, target, 0)
    \/ \E content \in SendTexts : SendMessage(content)
    \/ ClearMessages
    \/ ToggleTTS

SpecChat == InitChat /\ [][NextChat]_vars


(***************************************************************************)
(* Capture: VoiceService.startRecording / stopRecording and the voice      *)
(* activity detection of startAudioRecording.                              *)
(***************************************************************************)
\* the time between two batches
DeltaTs == {500, 1000}

CaptureUnchanged ==
    UNCHANGED <<webSocket, ws, sockets, config, listeners, seen, reconnectAttempts,
                reconnectTimeout, orphanTimers, currentMessageId, jwt,
                authInFlight, cachedPending, idCounter>>

\* startRecording(): throws unless the transport is open, returns when
\* already recording, else sets the flag and awaits startAudioRecording
StartRecording ==
    /\ IF ~IsOpen(webSocket)
       THEN /\ Throws(NotConnected)
            /\ UNCHANGED <<voice, store, capture>>
       ELSE /\ ~voice.isRecording
            /\ capture.acquiring < MaxGraphs
            /\ voice' = [voice EXCEPT !.isRecording = TRUE]
            /\ store' = setRecording(store, TRUE)
            /\ capture' = [capture EXCEPT !.acquiring = @ + 1]
            /\ HistEmit(<<"recording-start">>)
    /\ RunReset
    /\ UNCHANGED <<player, audio, obs>>
    /\ CaptureUnchanged

FreeGraph == CHOOSE g \in GraphIds :
                 /\ ~capture.graphs[g].live
                 /\ \A h \in GraphIds : h < g => capture.graphs[h].live

\* startAudioRecording resolves: the stream, the context and the node
\* exist and `this.recordingResources = await ...` is assigned
AcquireDone ==
    /\ EventLoopIdle
    /\ capture.acquiring > 0
    /\ \E g \in GraphIds : ~capture.graphs[g].live
    /\ capture' = [capture EXCEPT
                      !.acquiring = @ - 1,
                      !.graphs[FreeGraph] = [NoGraph EXCEPT !.live = TRUE],
                      !.vadObs[FreeGraph] = NoVadObs]
    /\ voice' = [voice EXCEPT !.recordingResources = FreeGraph]
    /\ RunReset /\ HistOther
    /\ UNCHANGED <<store, player, audio, obs>>
    /\ CaptureUnchanged

\* the error getUserMedia rejects with
DeviceError == "device"

\* a catch block that passes the error on without rolling the flag back
AcquireFail_NoRollback ==
    /\ EventLoopIdle
    /\ capture.acquiring > 0
    /\ capture' = [capture EXCEPT !.acquiring = @ - 1]
    /\ Throws(DeviceError)
    /\ RunReset
    /\ UNCHANGED <<voice, store, player, audio, obs>>
    /\ CaptureUnchanged

\* getUserMedia rejects: the catch block of startRecording
AcquireFail ==
    /\ EventLoopIdle
    /\ capture.acquiring > 0
    /\ capture' = [capture EXCEPT !.acquiring = @ - 1]
    /\ voice' = [voice EXCEPT !.isRecording = FALSE]
    /\ store' = setRecording(store, FALSE)
    /\ hist' = emit([Quiet(hist) EXCEPT
                         !.lastCall = "other",
                         !.thrown = IF hist.watch THEN DeviceError ELSE @],
                    <<"recording-stop">>)
    /\ RunReset
    /\ UNCHANGED <<player, audio, obs>>
    /\ CaptureUnchanged

\* stopAudioRecording(resources): the graph the resources name is released
stopAudioRecording(graphs, resources) ==
    [g \in GraphIds |-> IF g = resources THEN NoGraph ELSE graphs[g]]

\* stopRecording(), while recording (it returns at once otherwise)
StopRecording ==
    /\ voice.isRecording
    /\ capture' = [capture EXCEPT
                      !.graphs = stopAudioRecording(@, voice.recordingResources)]
    /\ voice' = [voice EXCEPT !.isRecording = FALSE,
                              !.recordingResources = 0,
                              !.currentInteractionId = 0]
    /\ store' = setRecording(store, FALSE)
    /\ RunReset /\ HistEmit(<<"recording-stop">>)
    /\ UNCHANGED <<player, audio, obs>>
    /\ CaptureUnchanged

\* the branch of a batch above SPEECH_THRESHOLD, with the onset fired by the
\* first such batch
AboveThreshold_OnsetAtFirst(vad) ==
    [vad |-> [vad EXCEPT !.consecutiveSpeechChunks = @ + 1,
                         !.isSpeaking = TRUE,
                         !.silenceStartTime = 0],
     events |-> (IF ~vad.isSpeaking THEN {"speechStart"} ELSE {})
                    \cup {"audioData"}]

\* a batch above SPEECH_THRESHOLD: the closure variables after the batch and
\* the callbacks invoked
AboveThreshold(vad) ==
    LET count == vad.consecutiveSpeechChunks + 1
    IN  IF count >= REQUIRED_SPEECH_CHUNKS
        THEN [vad |-> [vad EXCEPT !.consecutiveSpeechChunks = count,
                                  !.isSpeaking = TRUE,
                                  !.silenceStartTime = 0],
              events |-> (IF ~vad.isSpeaking THEN {"speechStart"} ELSE {})
                             \cup {"audioData"}]
        ELSE IF vad.isSpeaking
        THEN [vad |-> [vad EXCEPT !.consecutiveSpeechChunks = count,
                                  !.silenceStartTime = 0],
              events |-> {"audioData"}]
        ELSE [vad |-> [vad EXCEPT !.consecutiveSpeechChunks = count],
              events |-> {}]

\* the branch of a batch below the threshold, with silence declared once the
\* run has lasted SILENCE_DURATION
BelowThreshold_AtDuration(vad, now) ==
    LET reset == [vad EXCEPT !.consecutiveSpeechChunks = 0]
    IN  IF ~vad.isSpeaking THEN [vad |-> reset, events |-> {}]
        ELSE IF vad.silenceStartTime = 0
        THEN [vad |-> [reset EXCEPT !.silenceStartTime = now],
              events |-> {}]
        ELSE IF now - vad.silenceStartTime >= SILENCE_DURATION
        THEN [vad |-> [reset EXCEPT !.isSpeaking = FALSE,
                                    !.silenceStartTime = 0],
              events |-> {"silence"}]
        ELSE [vad |-> reset, events |-> {"audioData"}]

\* a batch at or below the threshold, processed at time now
BelowThreshold(vad, now) ==
    LET reset == [vad EXCEPT !.consecutiveSpeechChunks = 0]
    IN  IF ~vad.isSpeaking THEN [vad |-> reset, events |-> {}]
        ELSE IF vad.silenceStartTime = 0
        THEN [vad |-> [reset EXCEPT !.silenceStartTime = now],
              events |-> {}]
        ELSE IF now - vad.silenceStartTime > SILENCE_DURATION
        THEN [vad |-> [reset EXCEPT !.isSpeaking = FALSE,
                                    !.silenceStartTime = 0],
              events |-> {"silence"}]
        ELSE [vad |-> reset, events |-> {"audioData"}]

\* the voice activity detection of one batch
ProcessBatch(vad, above, now) ==
    IF above THEN AboveThreshold(vad) ELSE BelowThreshold(vad, now)

\* the observer of a graph's batches
VadObserve(o, above, now, events) ==
    [aboveRun |-> IF above THEN UpTo2(o.aboveRun) ELSE 0,
     active |-> IF "speechStart" \in events THEN TRUE
                ELSE IF "silence" \in events THEN FALSE
                ELSE o.active,
     runStart |-> IF above THEN 0
                  ELSE IF o.runStart = 0 THEN now ELSE o.runStart,
     loneAbove |-> o.loneAbove \/ (~above /\ ~o.active /\ o.aboveRun = 1),
     heldAt |-> IF above THEN FALSE
                ELSE o.heldAt \/ (/\ o.active /\ o.runStart # 0
                                  /\ now - o.runStart = SILENCE_DURATION
                                  /\ "silence" \notin events),
     emitted |-> events]

\* generateInteractionId()
generateInteractionId == capture.interactions + 1

\* the onSpeechStart callback of VoiceService.startRecording
onSpeechStart(w) ==
    stopTTS([w EXCEPT !.voice.currentInteractionId = generateInteractionId])

\* a batch of graph g is processed dt after the previous batch; above tells
\* whether its RMS exceeds SPEECH_THRESHOLD
Batch(g, above, dt) ==
    /\ EventLoopIdle
    /\ capture.graphs[g].live
    /\ capture.now + dt <= MaxNow
    /\ LET now == capture.now + dt
           r == ProcessBatch(capture.graphs[g], above, now)
           onset == "speechStart" \in r.events
           w == IF onset THEN onSpeechStart(World) ELSE World
           open == IsOpen(webSocket)
       IN  /\ Becomes([w EXCEPT !.obs = ObsOff(@)])
           /\ capture' = [capture EXCEPT
                 !.now = now,
                 !.graphs[g] = r.vad,
                 !.vadObs[g] = VadObserve(@, above, now, r.events),
                 !.interactions = IF onset THEN @ + 1 ELSE @,
                 !.lastOnset = IF onset THEN generateInteractionId ELSE @,
                 !.out = [data |-> "audioData" \in r.events /\ open,
                          inputEnd |->
                              IF /\ "silence" \in r.events
                                 /\ open
                                 /\ w.voice.currentInteractionId # 0
                              THEN w.voice.currentInteractionId ELSE 0]]
    /\ RunReset /\ HistOther
    /\ CaptureUnchanged

(***************************************************************************)
(* SpecVoice: playback and capture over one open connection.               *)
(***************************************************************************)
NextVoice ==
    \/ ConnectOnce
    \/ AuthSuccess
    \/ \E s \in Slots : WsOpen(s)
    \/ ToggleTTS
    \/ \E s \in Slots : BinaryAudioFrame(s)
    \/ BlobConverted
    \/ \E s \in Slots, interactionId \in InteractionIds :
          Base64AudioFrame(s, interactionId)
    \/ \E b \in 1..MaxBuffers : SourceEnded(b)
    \/ \E b \in 1..MaxBuffers, ok \in BOOLEAN : DecodeSettled(b, ok)
    \/ StartRecording
    \/ AcquireDone
    \/ \E g \in GraphIds : Batch(g, TRUE, 1000)

SpecVoice == InitChat /\ [][NextVoice]_vars

(***************************************************************************)
(* SpecCapture: recording and voice activity detection over one open       *)
(* connection.                                                             *)
(***************************************************************************)
NextCapture ==
    \/ ConnectOnce
    \/ AuthSuccess
    \/ \E s \in Slots : WsOpen(s)
    \/ StartRecording
    \/ AcquireDone
    \/ AcquireFail
    \/ StopRecording
    \/ \E g \in GraphIds, above \in BOOLEAN, dt \in DeltaTs : Batch(g, above, dt)

SpecCapture == InitChat /\ [][NextCapture]_vars

(***************************************************************************)
(* Specifications with the events emitted, the errors raised and the       *)
(* frames sent recorded.  A session is configured either without           *)
(* reconnection, and then the caller disconnects and connects again, or    *)
(* with it, and then the client reconnects by itself.                      *)
(***************************************************************************)
SessionConfigs ==
    {[reconnect |-> FALSE, maxReconnectAttempts |-> 1],
     [reconnect |-> TRUE, maxReconnectAttempts |-> 1]}

InitSession == \E c \in SessionConfigs : ConstructedObserved(c, WatchingHist)

DisconnectManual == ~config.reconnect /\ Disconnect

(***************************************************************************)
(* SpecSession: the calls of the caller in every connection state, and     *)
(* frames, some of them not parsable.                                      *)
(***************************************************************************)
NextSession ==
    \/ ConnectOnce
    \/ AuthSuccess
    \/ AuthFailure
    \/ DisconnectManual
    \/ \E s \in Slots : WsOpen(s)
    \/ \E s \in Slots, code \in CloseCodes : WsClose(s, code, FALSE)
    \/ TimerFire
    \/ \E s \in Slots : StatusFrame(s, <<>>, <<"thinking">>, "unset", 0)
    \/ \E s \in Slots : LlmFrame(s, <<"a">>, <<>>)
    \/ \E s \in Slots : MalformedFrame(s)
    \/ \E content \in SendTexts : SendMessage(content)
    \/ SendControl
    \/ ~IsOpen(webSocket) /\ StartRecording

SpecSession == InitSession /\ [][NextSession]_vars

(***************************************************************************)
(* SpecRecording: starting and stopping the recording, with device         *)
(* acquisition succeeding or failing, in every connection state.           *)
(***************************************************************************)
NextRecording ==
    \/ ConnectOnce
    \/ AuthSuccess
    \/ DisconnectManual
    \/ \E s \in Slots : WsOpen(s)
    \/ \E s \in Slots, code \in CloseCodes : WsClose(s, code, FALSE)
    \/ TimerFire
    \/ StartRecording
    \/ AcquireDone
    \/ AcquireFail
    \/ StopRecording

SpecRecording == InitSession /\ [][NextRecording]_vars

(***************************************************************************)
(* SpecAuth: the connection lifecycle of a session that reconnects, with   *)
(* authentication succeeding or failing.                                   *)
(***************************************************************************)
\* connect() called while no other call of connect() is suspended
ConnectIdle == authInFlight = 0 /\ cachedPending = 0 /\ Connect

InitAuth ==
    ConstructedObserved([reconnect |-> TRUE, maxReconnectAttempts |-> 2],
                        WatchingHist)

NextAuth ==
    \/ ConnectIdle
    \/ ConnectResume
    \/ AuthSuccess
    \/ AuthFailure
    \/ Disconnect
    \/ \E s \in Slots : WsOpen(s)
    \/ \E s \in Slots, code \in CloseCodes, withError \in BOOLEAN :
          WsClose(s, code, withError)
    \/ TimerFire
    \/ OrphanTimerFire

SpecAuth == InitAuth /\ [][NextAuth]_vars

(***************************************************************************)
(* Vocabulary of the properties                                            *)
(***************************************************************************)
Messages == store.messages

IsAssistantText(m) == m.role = "assistant" /\ m.type = "text"

AssistantTextCount(messages) ==
    Cardinality({i \in 1..Len(messages) : IsAssistantText(messages[i])})

\* the assistant text turns that are receiving deltas
OpenTurns ==
    {i \in 1..Len(Messages) :
        /\ currentMessageId # 0
        /\ Messages[i].id = currentMessageId
        /\ IsAssistantText(Messages[i])}

\* new WebSocket(...) ran in this step
SocketCreated ==
    \E i \in Slots : /\ sockets'[i].readyState = "CONNECTING"
                     /\ sockets[i].readyState # "CONNECTING"

NoTimerPending == reconnectTimeout # "pending" /\ orphanTimers = 0

LiveTransports ==
    Cardinality({i \in Slots : sockets[i].readyState \in {"CONNECTING", "OPEN"}})

\* attemptReconnect() ran in this step
ReconnectScheduled ==
    /\ reconnectAttempts' = reconnectAttempts + 1
    /\ reconnectTimeout' = "pending"

NothingScheduled ==
    UNCHANGED <<reconnectAttempts, reconnectTimeout, orphanTimers>>

(***************************************************************************)
(* C1.  Interim transcripts followed by one final transcript leave exactly *)
(* one new user turn, holding the final text and marked finalized.         *)
(***************************************************************************)
C1_OneFinalizedUserTurn ==
    run.phase = "sttDone" =>
        /\ Len(Messages) = Len(run.base) + 1
        /\ SubSeq(Messages, 1, Len(run.base)) = run.base
        /\ Messages[Len(Messages)].role = "user"
        /\ Messages[Len(Messages)].content = run.acc
        /\ Messages[Len(Messages)].finalized = "true"

(***************************************************************************)
(* C2.  The stream.llm frames between a response.start and a response.end  *)
(* leave exactly one new assistant turn whose content is the concatenation *)
(* of the deltas (content when the delta is absent), no longer open.       *)
(***************************************************************************)
C2_OneConcatenatedAssistantTurn ==
    run.phase = "llmDone" =>
        /\ Len(Messages) = Len(run.base) + 1
        /\ SubSeq(Messages, 1, Len(run.base)) = run.base
        /\ IsAssistantText(Messages[Len(Messages)])
        /\ Messages[Len(Messages)].content = run.acc
        /\ currentMessageId = 0
        /\ ~store.isTyping

(***************************************************************************)
(* C3.  At most one assistant text turn is open in every state, and a step *)
(* adds an assistant text turn only when no turn was open before it.       *)
(***************************************************************************)
C3_AtMostOneOpenTurn ==
    [][/\ Cardinality(OpenTurns') <= 1
       /\ AssistantTextCount(store'.messages) > AssistantTextCount(store.messages)
             => currentMessageId = 0]_vars

\* a second response has opened its own turn next to the closed first one
C3_Witness ==
    /\ Cardinality(OpenTurns) = 1
    /\ AssistantTextCount(Messages) >= 2

(***************************************************************************)
(* C4.  The content of an assistant turn that is closed (a text turn that  *)
(* is not the open one, or an error turn) is never changed by a later step.*)
(***************************************************************************)
IsClosedTurn(m) ==
    /\ m.role = "assistant"
    /\ m.type \in {"text", "error"}
    /\ m.id # currentMessageId

C4_ClosedTurnImmutable ==
    [][\A i \in 1..Len(store.messages) :
          IsClosedTurn(store.messages[i]) =>
              \A j \in 1..Len(store'.messages) :
                  store'.messages[j].id = store.messages[i].id
                      => store'.messages[j].content = store.messages[i].content]_vars

(***************************************************************************)
(* C5.  The store never holds two status turns of the same (role, target)  *)
(* pair, the target being 'bot' when the frame names none.                 *)
(***************************************************************************)
C5_OneStatusPerPair ==
    \A i, j \in 1..Len(Messages) :
        (/\ i < j
         /\ Messages[i].type = "status"
         /\ Messages[j].type = "status")
        => ~(/\ Messages[i].role = Messages[j].role
             /\ TargetOrBot(Messages[i].target) = TargetOrBot(Messages[j].target))


(***************************************************************************)
(* C6.  With reconnection enabled and maxReconnectAttempts = N, an         *)
(* abnormal closure schedules a reconnect exactly when fewer than N have   *)
(* been scheduled since the last successful open, for N = 0 as well.       *)
(***************************************************************************)
C6_ExactlyNReconnects ==
    [][\A s \in Slots, code \in CloseCodes \ {NormalClosure}, e \in BOOLEAN :
          (config.reconnect /\ WsClose(s, code, e)) =>
              IF reconnectAttempts < config.maxReconnectAttempts
              THEN ReconnectScheduled
              ELSE NothingScheduled]_vars

(***************************************************************************)
(* C7.  From disconnect() until the next explicit connect() no reconnect   *)
(* timer is pending and no transport is created.                           *)
(***************************************************************************)
C7_QuietAfterDisconnect ==
    [][hist'.disc => /\ NoTimerPending'
                     /\ hist.disc => ~SocketCreated]_vars

(***************************************************************************)
(* C8.  After disconnect() immediately followed by connect(), a close      *)
(* event of a transport other than the current one neither changes the     *)
(* store's connected flag nor schedules a reconnect that would create a    *)
(* second transport (stated for a non-zero ceiling, the zero ceiling being *)
(* the case of C6).                                                        *)
(***************************************************************************)
LateClose ==
    \E s \in Slots, code \in CloseCodes, e \in BOOLEAN :
        s # ws /\ WsClose(s, code, e)

C8_RoundTripLateCloseHarmless ==
    [][(hist.roundTrip /\ config.maxReconnectAttempts > 0 /\ LateClose) =>
          /\ store'.isConnected = store.isConnected
          /\ NothingScheduled]_vars

(***************************************************************************)
(* C9.  A close with code 4401 clears the cached credential and a close    *)
(* with another code keeps it; the first connect() that goes ahead after a *)
(* 4401 close issues an authentication request and creates no transport    *)
(* before the answer.                                                      *)
(***************************************************************************)
ConnectGoesAhead ==
    /\ ~IsOpen(ws)
    /\ Connect \/ TimerFire \/ OrphanTimerFire

C9_ReauthAfter4401 ==
    [][/\ \A s \in Slots, code \in CloseCodes, e \in BOOLEAN :
             WsClose(s, code, e) =>
                 jwt' = IF code = Unauthorized THEN "null" ELSE jwt
       /\ (hist.invalidated /\ ConnectGoesAhead) =>
             /\ authInFlight' = authInFlight + 1
             /\ cachedPending' = cachedPending
             /\ ~SocketCreated]_vars

(***************************************************************************)
(* C10.  An inbound error frame or service.message frame leaves the        *)
(* transports, the reconnect timers and the store's connected and          *)
(* connecting flags as they were.                                          *)
(***************************************************************************)
ErrorOrServiceFrame ==
    \/ \E s \in Slots, m \in ErrorMessages : ErrorFrame(s, m, "unset")
    \/ \E s \in Slots, c \in ServiceContents, t \in Targets, d \in DataIds :
          ServiceFrame(s, c, t, d)

C10_FramesKeepConnectionState ==
    [][ErrorOrServiceFrame =>
          /\ store'.isConnected = store.isConnected
          /\ store'.isConnecting = store.isConnecting
          /\ UNCHANGED <<ws, sockets, reconnectAttempts, reconnectTimeout,
                         orphanTimers>>]_vars


(***************************************************************************)
(* C11.  After an error frame or a service.message frame the store holds   *)
(* no status turn, no assistant turn is open and the typing flag is false. *)
(***************************************************************************)
C11_FrameClosesTurn ==
    [][ErrorOrServiceFrame =>
          /\ \A i \in 1..Len(store'.messages) :
                store'.messages[i].type # "status"
          /\ currentMessageId' = 0
          /\ ~store'.isTyping]_vars



(***************************************************************************)
(* C12.  Barge-in: once a buffer of another interaction is enqueued while  *)
(* audio is playing, and as long as only ended events of stopped sources   *)
(* follow, exactly one playback-ended and one playback-started have been   *)
(* notified and none of the buffers that were queued has been started.     *)
(***************************************************************************)
C12_BargeInNotifications ==
    obs.barge =>
        /\ obs.ends = 1
        /\ obs.starts = 1
        /\ obs.dropped \cap audio.endPending = {}

(***************************************************************************)
(* C13.  At most one buffer is playing after every step, and a buffer that *)
(* begins playback comes from a later playAudioChunk call than every       *)
(* buffer that began before it.                                            *)
(***************************************************************************)
C13_OneAtATimeInOrder ==
    [][/\ Cardinality(audio'.audible) <= 1
       /\ \A b \in audio'.audible \ audio.audible : b > obs.lastStarted]_vars

(***************************************************************************)
(* C14.  While TTS is disabled no buffer is playing and the playback queue *)
(* is empty.                                                               *)
(***************************************************************************)
C14_SilentWhileTtsOff ==
    ~store.ttsEnabled =>
        /\ audio.audible = {}
        /\ player.audioQueue = <<>>


\* this step processes a batch of graph g (only a batch moves the clock)
BatchStep(g, above) ==
    /\ capture'.now # capture.now
    /\ capture.graphs[g].live
    /\ above = (capture'.vadObs[g].aboveRun > 0)
    /\ Batch(g, above, capture'.now - capture.now)

(***************************************************************************)
(* C15.  A batch fires speech-onset exactly when speech is not active, the *)
(* batch is above the threshold and it completes REQUIRED_SPEECH_CHUNKS    *)
(* consecutive batches above the threshold.                                *)
(***************************************************************************)
C15_OnsetAtSecondConsecutive ==
    [][\A g \in GraphIds, above \in BOOLEAN :
          BatchStep(g, above) =>
              ("speechStart" \in capture'.vadObs[g].emitted
                  <=> /\ ~capture.vadObs[g].active
                      /\ above
                      /\ capture.vadObs[g].aboveRun + 1 >= REQUIRED_SPEECH_CHUNKS)]_vars

\* an onset has fired at the second of two consecutive batches above the
\* threshold, after a lone batch above the threshold was passed over
C15_Witness ==
    \E g \in GraphIds :
        /\ capture.graphs[g].live
        /\ "speechStart" \in capture.vadObs[g].emitted
        /\ capture.vadObs[g].aboveRun = 2
        /\ capture.vadObs[g].loneAbove

(***************************************************************************)
(* C16.  A batch fires silence exactly when speech is active, the batch is *)
(* below the threshold and the run of below-threshold batches it belongs   *)
(* to began more than SILENCE_DURATION before it; the batch ends the       *)
(* active state.                                                           *)
(***************************************************************************)
C16_SilenceAfterLongRun ==
    [][\A g \in GraphIds, above \in BOOLEAN :
          BatchStep(g, above) =>
              /\ "silence" \in capture'.vadObs[g].emitted
                    <=> /\ capture.vadObs[g].active
                        /\ ~above
                        /\ capture.vadObs[g].runStart # 0
                        /\ capture'.now - capture.vadObs[g].runStart
                               > SILENCE_DURATION
              /\ "silence" \in capture'.vadObs[g].emitted
                    => ~capture'.graphs[g].isSpeaking]_vars

\* silence has fired, after a run of exactly SILENCE_DURATION did not fire it
C16_Witness ==
    \E g \in GraphIds :
        /\ "silence" \in capture.vadObs[g].emitted
        /\ capture.vadObs[g].heldAt
        /\ capture.now - capture.vadObs[g].runStart > SILENCE_DURATION
        /\ ~capture.graphs[g].isSpeaking

(***************************************************************************)
(* C17.  A batch emits audio-data exactly when speech is active once the   *)
(* batch is processed: from the batch that fires speech-onset up to, but   *)
(* excluding, the batch that fires silence.                                *)
(***************************************************************************)
C17_DataWhileActive ==
    [][\A g \in GraphIds, above \in BOOLEAN :
          BatchStep(g, above) =>
              ("audioData" \in capture'.vadObs[g].emitted
                  <=> capture'.vadObs[g].active)]_vars

(***************************************************************************)
(* C18.  Right after a batch that fires speech-onset the interaction       *)
(* identity is a new one, no buffer is playing, the playback queue is      *)
(* empty and the speaking flag is false.                                   *)
(***************************************************************************)
C18_OnsetStopsPlayback ==
    [][\A g \in GraphIds, above \in BOOLEAN :
          (BatchStep(g, above) /\ "speechStart" \in capture'.vadObs[g].emitted) =>
              /\ voice'.currentInteractionId > capture.interactions
              /\ audio'.audible = {}
              /\ player'.audioQueue = <<>>
              /\ ~voice'.isSpeaking
              /\ ~store'.isSpeaking]_vars

(***************************************************************************)
(* C19.  A batch that fires silence while the transport is open sends an   *)
(* input.end frame carrying the identity generated at the most recent      *)
(* speech-onset, and no other batch sends one.                             *)
(***************************************************************************)
C19_InputEndPerSilence ==
    [][\A g \in GraphIds, above \in BOOLEAN :
          BatchStep(g, above) =>
              /\ ("silence" \in capture'.vadObs[g].emitted /\ IsOpen(webSocket))
                    => /\ capture'.out.inputEnd # 0
                       /\ capture'.out.inputEnd = capture.lastOnset
              /\ capture'.out.inputEnd # 0
                    => /\ "silence" \in capture'.vadObs[g].emitted
                       /\ capture.vadObs[g].active]_vars

(***************************************************************************)
(* C20.  While the recording flag is false no capture graph (microphone    *)
(* stream, processing node, audio context) is held.                        *)
(***************************************************************************)
C20_NothingHeldWhenNotRecording ==
    ~voice.isRecording => \A g \in GraphIds : ~capture.graphs[g].live

(***************************************************************************)
(* SpecLive: reconnection when the server cooperates.  Authentication      *)
(* succeeds, a transport that is connecting opens, and an open transport   *)
(* may be lost at any time with a code other than 1000.  The timer, the    *)
(* authentication exchange and the opening of a transport are not delayed  *)
(* for ever.                                                               *)
(***************************************************************************)
LiveConfigs == {[reconnect |-> TRUE, maxReconnectAttempts |-> n] : n \in 0..MaxN}

InitLive == \E c \in LiveConfigs : ConstructedObserved(c, WatchingHist)

\* the server or the network drops an established connection
ConnectionLost(s, code, withError) ==
    /\ sockets[s].readyState = "OPEN"
    /\ code # NormalClosure
    /\ WsClose(s, code, withError)

NextLive ==
    \/ ConnectOnce
    \/ AuthSuccess
    \/ \E s \in Slots : WsOpen(s)
    \/ \E s \in Slots, code \in CloseCodes, withError \in BOOLEAN :
          ConnectionLost(s, code, withError)
    \/ TimerFire
    \/ \E s \in Slots : StatusFrame(s, <<>>, <<"thinking">>, "unset", 0)
    \/ \E s \in Slots : LlmFrame(s, <<"a">>, <<>>)
    \/ \E s \in Slots : ResponseEndFrame(s)

SpecLive ==
    /\ InitLive
    /\ [][NextLive]_vars
    /\ WF_vars(TimerFire)
    /\ WF_vars(AuthSuccess)
    /\ WF_vars(\E s \in Slots : WsOpen(s))

(***************************************************************************)
(* SpecPlay: playback to its end.  A started source ends, a decode         *)
(* settles and a Blob is converted, none of them delayed for ever; the     *)
(* chunks stop arriving after MaxBuffers of them.                          *)
(***************************************************************************)
InitPlay == ConstructedTracked(DefaultConfig, NoHist, TrackingObs)

NextPlay ==
    \/ ConnectOnce
    \/ AuthSuccess
    \/ \E s \in Slots : WsOpen(s)
    \/ ToggleTTS
    \/ \E s \in Slots : BinaryAudioFrame(s)
    \/ BlobConverted
    \/ \E s \in Slots, interactionId \in InteractionIds :
          Base64AudioFrame(s, interactionId)
    \/ \E b \in 1..MaxBuffers : SourceEnded(b)
    \/ \E b \in 1..MaxBuffers, ok \in BOOLEAN : DecodeSettled(b, ok)

SpecPlay ==
    /\ InitPlay
    /\ [][NextPlay]_vars
    /\ WF_vars(BlobConverted)
    /\ \A b \in 1..MaxBuffers : WF_vars(SourceEnded(b))
    /\ \A b \in 1..MaxBuffers : WF_vars(\E ok \in BOOLEAN : DecodeSettled(b, ok))

(***************************************************************************)
(* SpecVad: the two voice activity detectors of startAudioRecording, fed   *)
(* the same classifications at the same times.  Graph 1 runs the worklet   *)
(* handler, graph 2 the ScriptProcessor handler.                           *)
(***************************************************************************)
\* the callbacks of one worklet batch, in the order the handler calls them
CallOrder(events) ==
    (IF "speechStart" \in events THEN <<"speechStart">> ELSE <<>>)
        \o (IF "audioData" \in events THEN <<"audioData">> ELSE <<>>)
        \o (IF "silence" \in events THEN <<"silence">> ELSE <<>>)

\* a ScriptProcessor handler that drops a lone loud buffer during speech
onaudioprocess_DropsLone(vad, above, now) ==
    IF above
    THEN LET count == vad.consecutiveSpeechChunks + 1
         IN  IF count >= REQUIRED_SPEECH_CHUNKS
             THEN [vad |-> [vad EXCEPT !.consecutiveSpeechChunks = count,
                                       !.isSpeaking = TRUE,
                                       !.silenceStartTime = 0],
                   events |-> (IF ~vad.isSpeaking THEN <<"speechStart">> ELSE <<>>)
                                  \o <<"audioData">>]
             ELSE [vad |-> [vad EXCEPT !.consecutiveSpeechChunks = count],
                   events |-> <<>>]
    ELSE LET reset == [vad EXCEPT !.consecutiveSpeechChunks = 0]
         IN  IF ~vad.isSpeaking THEN [vad |-> reset, events |-> <<>>]
             ELSE IF vad.silenceStartTime = 0
             THEN [vad |-> [reset EXCEPT !.silenceStartTime = now],
                   events |-> <<>>]
             ELSE IF now - vad.silenceStartTime > SILENCE_DURATION
             THEN [vad |-> [reset EXCEPT !.isSpeaking = FALSE,
                                         !.silenceStartTime = 0],
                   events |-> <<"silence">>]
             ELSE [vad |-> reset, events |-> <<"audioData">>]

\* processorNode.onaudioprocess: the closure variables after one buffer and
\* the callbacks invoked, in order; above tells whether the buffer's RMS
\* exceeds SPEECH_THRESHOLD
onaudioprocess(vad, above, now) ==
    IF above
    THEN LET count == vad.consecutiveSpeechChunks + 1
         IN  IF count >= REQUIRED_SPEECH_CHUNKS
             THEN [vad |-> [vad EXCEPT !.consecutiveSpeechChunks = count,
                                       !.isSpeaking = TRUE,
                                       !.silenceStartTime = 0],
                   events |-> (IF ~vad.isSpeaking THEN <<"speechStart">> ELSE <<>>)
                                  \o <<"audioData">>]
             ELSE IF vad.isSpeaking
             THEN [vad |-> [vad EXCEPT !.consecutiveSpeechChunks = count,
                                       !.silenceStartTime = 0],
                   events |-> <<"audioData">>]
             ELSE [vad |-> [vad EXCEPT !.consecutiveSpeechChunks = count],
                   events |-> <<>>]
    ELSE LET reset == [vad EXCEPT !.consecutiveSpeechChunks = 0]
         IN  IF ~vad.isSpeaking THEN [vad |-> reset, events |-> <<>>]
             ELSE IF vad.silenceStartTime = 0
             THEN [vad |-> [reset EXCEPT !.silenceStartTime = now],
                   events |-> <<>>]
             ELSE IF now - vad.silenceStartTime > SILENCE_DURATION
             THEN [vad |-> [reset EXCEPT !.isSpeaking = FALSE,
                                         !.silenceStartTime = 0],
                   events |-> <<"silence">>]
             ELSE [vad |-> reset, events |-> <<"audioData">>]

SeqToSet(q) == {q[i] : i \in 1..Len(q)}

\* the worklet graph and the ScriptProcessor graph process a batch of the
\* same classification at the same time
PairBatch(above, dt) ==
    /\ capture.now + dt <= MaxNow
    /\ LET now == capture.now + dt
           w == ProcessBatch(capture.graphs[1], above, now)
           f == onaudioprocess(capture.graphs[2], above, now)
       IN  capture' = [capture EXCEPT
                          !.now = now,
                          !.graphs[1] = w.vad,
                          !.graphs[2] = f.vad,
                          !.vadObs[1] = VadObserve(@, above, now, w.events),
                          !.vadObs[2] = VadObserve(@, above, now,
                                                   SeqToSet(f.events))]
    /\ UNCHANGED <<store, voice, player, audio, obs, run, hist>>
    /\ CaptureUnchanged

\* the time between two batches of the pair
PairDeltaTs == {250, 500, 1000}

NextVad == \E above \in BOOLEAN, dt \in PairDeltaTs : PairBatch(above, dt)

SpecVad == InitChat /\ [][NextVad]_vars

(***************************************************************************)
(* SpecStore: the store and its subscribers.                               *)
(***************************************************************************)
MaxListeners == 2
ListenerIds == 1..MaxListeners

StoreUnchanged ==
    UNCHANGED <<ws, sockets, config, reconnectAttempts, reconnectTimeout,
                orphanTimers, currentMessageId, jwt, authInFlight,
                cachedPending, idCounter, run, hist, webSocket, voice,
                player, audio, capture, obs>>

\* store.subscribe(listener) with a function not subscribed yet
Subscribe(id, kind) ==
    /\ \A i \in 1..Len(listeners) : listeners[i].id # id
    /\ listeners' = Append(listeners, [id |-> id, kind |-> kind])
    /\ UNCHANGED <<store, seen>>
    /\ StoreUnchanged

\* the unsubscribe function of listener id is called outside a notification
Unsubscribe(id) ==
    /\ \E i \in 1..Len(listeners) : listeners[i].id = id
    /\ listeners' = unsubscribe(listeners, id)
    /\ UNCHANGED <<store, seen>>
    /\ StoreUnchanged

\* a store operation, next being the state it passes to setState; the
\* observer notes which listeners the call invoked
StoreCall(next) ==
    LET done == setState([StoreWorld EXCEPT !.seen = NoSeen], next)
    IN  /\ store' = done.state
        /\ listeners' = done.listeners
        /\ seen' = [done.seen EXCEPT
                       !.missed = \E i \in 1..Len(done.listeners) :
                                     done.listeners[i].id \notin done.seen.invoked]
        /\ StoreUnchanged

NextStore ==
    \/ \E id \in ListenerIds, kind \in ListenerKinds : Subscribe(id, kind)
    \/ \E id \in ListenerIds : Unsubscribe(id)
    \/ \E typing \in BOOLEAN : StoreCall(setTyping(store, typing))
    \/ \E recording \in BOOLEAN : StoreCall(setRecording(store, recording))
    \/ StoreCall(setError(store, ConnErrorMsg))
    \/ StoreCall(setConnected(store, TRUE))

SpecStore == InitChat /\ [][NextStore]_vars

(***************************************************************************)
(* C21.  When device acquisition fails the error is raised to the caller   *)
(* of startRecording, the recording flag is false in the voice service and *)
(* in the store, recording-stop is emitted, and the transport, the         *)
(* connection flags of the store, the reconnect counter and the reconnect  *)
(* timer are as before.                                                    *)
(***************************************************************************)
ConnectionStateUnchanged ==
    /\ UNCHANGED <<ws, webSocket, sockets, reconnectAttempts, reconnectTimeout,
                   orphanTimers, jwt, authInFlight, cachedPending>>
    /\ store'.isConnected = store.isConnected
    /\ store'.isConnecting = store.isConnecting
    /\ store'.error = store.error

C21_AcquisitionFailureRollsBack ==
    [][AcquireFail =>
          /\ hist'.thrown = DeviceError
          /\ ~voice'.isRecording
          /\ ~store'.isRecording
          /\ hist'.events = <<"recording-stop">>
          /\ ConnectionStateUnchanged]_vars

\* an acquisition has just failed while the connection is open
C21_Witness ==
    /\ hist.thrown = DeviceError
    /\ ~voice.isRecording
    /\ IsOpen(ws)
    /\ store.isConnected
    /\ jwt = "token"

(***************************************************************************)
(* C22.  Right after disconnect() no credential is cached and the          *)
(* reconnect counter is zero.                                              *)
(***************************************************************************)
C22_DisconnectClearsSession ==
    hist.lastCall = "disconnect" =>
        /\ jwt = "null"
        /\ reconnectAttempts = 0

(***************************************************************************)
(* C23.  A closure that is not normal, arriving with the reconnect counter *)
(* at its ceiling, schedules no reconnect and tells the subscribers        *)
(* something a closure below the ceiling does not tell them.               *)
(***************************************************************************)
\* the object in slot s closes abnormally with the counter at its ceiling
ExhaustedClose(s, code, withError) ==
    /\ code # NormalClosure
    /\ config.reconnect
    /\ reconnectAttempts >= MaxAttemptsOrDefault(config)
    /\ WsClose(s, code, withError)

\* what handleError and handleClose emit for any closure
EventsOfClose(withError) ==
    (IF withError THEN <<"error">> ELSE <<>>) \o <<"disconnected">>

C23_ExhaustionReported ==
    [][\A s \in Slots, code \in CloseCodes, withError \in BOOLEAN :
          ExhaustedClose(s, code, withError) =>
              /\ UNCHANGED <<reconnectAttempts, reconnectTimeout, orphanTimers>>
              /\ \/ hist'.events # EventsOfClose(withError)
                 \/ store'.error \notin {store.error, ConnErrorMsg}]_vars

(***************************************************************************)
(* C24.  When the authentication exchange of connect() fails, the error is *)
(* recorded in the store and an error event is emitted; no transport is    *)
(* created, no reconnect timer is scheduled, the reconnect counter keeps   *)
(* its value, and the store is not connecting afterwards.                  *)
(***************************************************************************)
C24_AuthFailureSurfaces ==
    [][AuthFailure =>
          /\ store'.error = AuthFailedMsg
          /\ hist'.events = <<"error">>
          /\ UNCHANGED <<ws, webSocket, sockets, reconnectTimeout, orphanTimers,
                         reconnectAttempts, jwt>>
          /\ ~store'.isConnecting]_vars

\* the exchange failed during a reconnect attempt: the counter is raised and
\* no transport is alive
C24_Witness ==
    /\ hist.events = <<"error">>
    /\ store.error = AuthFailedMsg
    /\ reconnectAttempts > 0
    /\ \A s \in Slots : sockets[s].readyState \in {"NONE", "CLOSED"}

(***************************************************************************)
(* C25.  sendMessage, sendControl and startRecording called while the      *)
(* transport is not open throw the not-connected error and change nothing: *)
(* no frame is sent, the store (its turns, status turns included, and its  *)
(* flags) and the state of the connection are as before the call.          *)
(***************************************************************************)
C25_NotConnectedChangesNothing ==
    [][\A content \in SendTexts :
          (~IsOpen(ws) /\ (SendMessage(content) \/ SendControl \/ StartRecording)) =>
              /\ hist'.thrown = NotConnected
              /\ hist'.sent = {}
              /\ hist'.events = <<>>
              /\ store' = store
              /\ ConnectionStateUnchanged
              /\ UNCHANGED <<voice, capture, currentMessageId, idCounter>>]_vars

\* a call was refused on a transport that had been open, with a status turn
\* and an open assistant turn in the store
C25_Witness ==
    /\ hist.thrown = NotConnected
    /\ ws # 0 /\ sockets[ws].readyState = "CLOSED"
    /\ \E i \in 1..Len(store.messages) : store.messages[i].type = "status"
    /\ store.isTyping

(***************************************************************************)
(* C26.  A text frame that is not valid JSON is dropped: the store, the    *)
(* open-turn marker, the reconnect counter and the transport are exactly   *)
(* as before it, nothing is emitted, and the transport that delivered it   *)
(* can still deliver frames.                                               *)
(***************************************************************************)
C26_MalformedFrameDropped ==
    [][\A s \in Slots :
          MalformedFrame(s) =>
              /\ store' = store
              /\ UNCHANGED <<currentMessageId, idCounter, reconnectAttempts,
                             reconnectTimeout, ws, webSocket, sockets, jwt>>
              /\ hist'.events = <<>>
              /\ CanReceive(s)']_vars

\* a malformed frame arrived in the middle of a response, with a status turn
\* in the store
C26_Witness ==
    /\ hist.lastCall = "malformed"
    /\ currentMessageId # 0
    /\ store.isTyping
    /\ \E i \in 1..Len(store.messages) : store.messages[i].type = "status"

(***************************************************************************)
(* C27.  A response.end frame closes the open turn and leaves the typing   *)
(* flag clear.  With TTS disabled the store holds no status turn after it; *)
(* with TTS enabled the turns of the store, status turns included, are     *)
(* those it held before, and the response.audio_end frame prunes them.     *)
(***************************************************************************)
StatusTurnsOf(st) == SelectSeq(st.messages, LAMBDA m : m.type = "status")

C27_ResponseEndClosesTurn ==
    [][\A s \in Slots :
          /\ ResponseEndFrame(s) =>
                /\ currentMessageId' = 0
                /\ ~store'.isTyping
                /\ ~store.ttsEnabled => StatusTurnsOf(store') = <<>>
                /\ store.ttsEnabled =>
                      /\ store'.messages = store.messages
                      /\ store'.ttsEnabled
          /\ ResponseAudioEndFrame(s) => StatusTurnsOf(store') = <<>>]_vars

\* a response.end has closed an open turn with TTS enabled and the status
\* turn is still shown
C27_Witness ==
    /\ hist.lastCall = "response.end"
    /\ \E i \in 1..Len(store.messages) :
          /\ store.messages[i].role = "assistant"
          /\ store.messages[i].type = "text"
    /\ store.ttsEnabled
    /\ StatusTurnsOf(store) # <<>>
    /\ currentMessageId = 0
    /\ ~store.isTyping

(***************************************************************************)
(* C28.  Playback-started is notified once per playing period: it never    *)
(* fires while the last notification was a playback-started, and a buffer  *)
(* that starts playing does so with playback-started as the last           *)
(* notification (the speaking flag, which the two notifications set and    *)
(* clear, is true).                                                        *)
(***************************************************************************)
C28_StartedOncePerPeriod ==
    [][/\ ~obs'.doubleStart
       /\ \A b \in audio'.audible \ audio.audible : voice'.isSpeaking]_vars

(***************************************************************************)
(* C29.  Right after a cancellation (TTS turned off, or a speech onset)    *)
(* the queue is empty, no buffer is playing, the interaction identity of   *)
(* the player is reset and the speaking flag is false; and a buffer handed *)
(* to playAudioChunk before the latest cancellation is never playing       *)
(* after it.                                                               *)
(***************************************************************************)
\* this step calls stopTTS() from toggleTTS or from the speech-onset callback
CancellationStep ==
    \/ store.ttsEnabled /\ ~store'.ttsEnabled
    \/ \E g \in GraphIds :
          BatchStep(g, TRUE) /\ "speechStart" \in capture'.vadObs[g].emitted

C29_CancellationSilences ==
    [][/\ CancellationStep =>
             /\ player'.audioQueue = <<>>
             /\ audio'.audible = {}
             /\ player'.currentInteractionId = "null"
             /\ ~player'.isPlaying
             /\ ~voice'.isSpeaking
       /\ \A b \in audio'.audible : b > obs'.cancelledUpTo]_vars

(***************************************************************************)
(* C30.  The turn appended for an error frame or a service.message frame   *)
(* has kind error, and its role is user when the frame's target is user    *)
(* and assistant for any other or missing target.                          *)
(***************************************************************************)
C30_RoleFromTarget ==
    [][\A s \in Slots, target \in Targets :
          /\ (\E message \in ErrorMessages : ErrorFrame(s, message, target)) =>
                /\ LastMsg(store'.messages).type = "error"
                /\ LastMsg(store'.messages).role = RoleOf(TargetOrBot(target))
          /\ (\E content \in ServiceContents, dataId \in DataIds :
                 ServiceFrame(s, content, target, dataId)) =>
                /\ LastMsg(store'.messages).type = "error"
                /\ LastMsg(store'.messages).role = RoleOf(TargetOrBot(target))]_vars

(***************************************************************************)
(* C31.  After every store operation each subscribed listener has been     *)
(* invoked by it, and every snapshot it delivered was equal to the store's *)
(* state at the moment of the delivery.                                    *)
(***************************************************************************)
C31_ListenersSeeCurrentState ==
    /\ ~seen.missed
    /\ ~seen.stale

(***************************************************************************)
(* C32.  Fed the same classification at the same time, the worklet handler *)
(* and the ScriptProcessor handler invoke the same callbacks in the same   *)
(* order and are left with the same closure variables, so their event      *)
(* sequences agree for every sequence of batches.                          *)
(***************************************************************************)
C32_FallbackVadEquivalent ==
    [][\A above \in BOOLEAN, dt \in PairDeltaTs :
          PairBatch(above, dt) =>
              LET now == capture.now + dt
                  w == ProcessBatch(capture.graphs[1], above, now)
                  f == onaudioprocess(capture.graphs[2], above, now)
              IN  /\ CallOrder(w.events) = f.events
                  /\ capture'.graphs[1] = capture'.graphs[2]
                  /\ capture'.vadObs[1] = capture'.vadObs[2]]_vars

\* both detectors have held a pause at the limit and then declared silence
C32_Witness ==
    /\ capture.vadObs[1].emitted = {"silence"}
    /\ capture.vadObs[2].emitted = {"silence"}
    /\ capture.vadObs[1].heldAt
    /\ capture.vadObs[2].loneAbove

(***************************************************************************)
(* C33.  At most one reconnect timer is pending in every reachable state.  *)
(***************************************************************************)
\* the timers set by attemptReconnect that have neither fired nor been cleared
PendingTimers ==
    (IF reconnectTimeout = "pending" THEN 1 ELSE 0) + orphanTimers

C33_SinglePendingTimer == PendingTimers <= 1

(***************************************************************************)
(* C34.  An authentication request is issued only when no credential is    *)
(* cached and no other request is in flight, so that at most one request   *)
(* is issued between two invalidations.                                    *)
(***************************************************************************)
C34_OneAuthenticationRequest ==
    [][authInFlight' > authInFlight => (jwt = "null" /\ authInFlight = 0)]_vars

(***************************************************************************)
(* C35.  When the decode of a dequeued buffer is rejected after the PCM    *)
(* path has failed, the buffer is never started; the next queued buffer is *)
(* taken from the queue and played, and with an empty queue the player is  *)
(* not playing, its interaction identity is reset and playback-ended has   *)
(* been notified.                                                          *)
(***************************************************************************)
C35_UnplayableBufferSkipped ==
    [][\A b \in 1..MaxBuffers :
          DecodeSettled(b, FALSE) =>
              /\ b \notin audio'.audible \cup audio'.endPending \cup audio'.decoding
              /\ IF player.audioQueue # <<>>
                 THEN LET next == Head(player.audioQueue)
                      IN  /\ player'.audioQueue = Tail(player.audioQueue)
                          /\ player'.isPlaying
                          /\ voice'.isSpeaking
                          /\ obs'.ends = 0
                          /\ IF next.pcm
                             THEN /\ next.id \in audio'.audible
                                  /\ player'.currentSource = next.id
                             ELSE next.id \in audio'.decoding
                 ELSE /\ ~player'.isPlaying
                      /\ player'.currentInteractionId = "null"
                      /\ player'.audioQueue = <<>>
                      /\ obs'.ends = 1
                      /\ ~voice'.isSpeaking
                      /\ ~store'.isSpeaking]_vars

\* an unplayable buffer was skipped and the buffer queued behind it is
\* playing
C35_Witness ==
    /\ obs.skipped # 0
    /\ player.currentSource > obs.skipped
    /\ player.currentSource \in audio.audible
    /\ player.isPlaying
    /\ obs.skipped \notin audio.audible

(***************************************************************************)
(* C36.  At most one transport that can still dispatch events to the       *)
(* client's handlers exists at any time, and it is the client's current    *)
(* one.                                                                    *)
(***************************************************************************)
\* the objects whose close event is still to come: each carries the four
\* handlers connect() attached to it
HandlerTransports == {s \in Slots : CanClose(s)}

C36_SingleLiveTransport ==
    \/ HandlerTransports = {}
    \/ Cardinality(HandlerTransports) = 1 /\ (ws = 0 \/ ws \in HandlerTransports)

(***************************************************************************)
(* C37.  A stream.stt frame with a non-blank text that arrives while the   *)
(* last turn is one created by sendMessage appends a separate user turn    *)
(* and leaves every typed turn as it was.                                  *)
(***************************************************************************)
\* a turn created by sendMessage: a user text turn without metadata
IsTypedTurn(m) == m.role = "user" /\ m.type = "text" /\ m.finalized = "unset"

C37_TypedTurnUntouched ==
    [][\A s \in Slots, text \in SttTexts, isFinal \in BOOLEAN :
          (/\ SttFrame(s, text, isFinal)
           /\ Trim(text) # <<>>
           /\ IsTypedTurn(LastMsg(store.messages))) =>
              /\ Len(store'.messages) = Len(store.messages) + 1
              /\ \A i \in 1..Len(store.messages) :
                    store'.messages[i] = store.messages[i]]_vars

(***************************************************************************)
(* C38.  When the connection is lost or given up (the store's connected    *)
(* flag goes from true to false) no assistant turn is left open: the       *)
(* typing flag is false and the open-turn marker is cleared, so that the   *)
(* next stream.llm frame starts a new turn.                                *)
(***************************************************************************)
C38_CloseEndsOpenTurn ==
    [][(store.isConnected /\ ~store'.isConnected) =>
          /\ ~store'.isTyping
          /\ currentMessageId' = 0]_vars

(***************************************************************************)
(* C39.  With reconnection enabled and a cooperating server, whenever an   *)
(* established connection is lost with a code other than 1000 the client   *)
(* is eventually open again, with the store's connected flag true and the  *)
(* reconnect counter at zero.                                              *)
(***************************************************************************)
\* handleClose has just run: the last step emitted 'disconnected'
JustDisconnected ==
    \E i \in 1..Len(hist.events) : hist.events[i] = "disconnected"

Reconnected ==
    /\ IsOpen(ws)
    /\ store.isConnected
    /\ reconnectAttempts = 0

C39_EventuallyReconnected == JustDisconnected ~> Reconnected

\* the transport created by a reconnect timer after a lost connection is
\* open, and handleOpen has reset the counter that attemptReconnect raised
C39_Witness ==
    /\ Reconnected
    /\ reconnectTimeout = "fired"
    /\ hist.events = <<"connected">>
    /\ jwt = "token"

(***************************************************************************)
(* C40.  Playback comes to its end: once a chunk has arrived, the player   *)
(* eventually is idle (not playing, empty queue, speaking flag false in    *)
(* the store, playback-ended the last notification) with nothing playing   *)
(* or pending, and every buffer that was enqueued has by then been         *)
(* started, skipped as unplayable, or discarded by a cancellation.         *)
(***************************************************************************)
ChunkArrived == audio.calls > 0

PlayerIdle ==
    /\ ~player.isPlaying
    /\ player.audioQueue = <<>>
    /\ ~store.isSpeaking
    /\ obs.last = "ended"

NothingPending ==
    /\ audio.audible = {}
    /\ audio.endPending = {}
    /\ audio.decoding = {}
    /\ audio.converting = <<>>

C40_PlaybackComesToRest ==
    ChunkArrived ~>
        /\ PlayerIdle
        /\ NothingPending
        /\ \A b \in 1..audio.calls :
              b \in obs.played \cup obs.unplayable \cup obs.discarded

\* the player is at rest after one buffer was played, one was unplayable
\* and one was discarded by a cancellation
C40_Witness ==
    /\ PlayerIdle
    /\ NothingPending
    /\ obs.played # {}
    /\ obs.unplayable # {}
    /\ obs.discarded # {}
    /\ obs.played \cup obs.unplayable \cup obs.discarded = 1..audio.calls

\* the statement without the skipped buffers: every enqueued buffer is
\* started or discarded by a cancellation
C40_StartedOrDiscarded ==
    ChunkArrived ~>
        /\ PlayerIdle
        /\ NothingPending
        /\ \A b \in 1..audio.calls : b \in obs.played \cup obs.discarded

====
